---------------------------- MODULE Spec2Model ----------------------------
(***************************************************************************)
(* A model of traders-parser-evm's resumable holder crawl:                 *)
(*   - the checkpoint store (app/services/manager/db_manager.py),          *)
(*   - the proxy pool (app/services/manager/proxy_manager.py) and the      *)
(*     credential pool (ApiKeyManager),                                    *)
(*   - the two crawl engines, app/services/contract/get_holders.py and     *)
(*     app/services/contract/services/token_holders_service.py.            *)
(*                                                                         *)
(* Three specifications share the variables:                               *)
(*   StoreSpec    direct calls of the DBManager writers, arbitrary input;  *)
(*   Spec         crawls run by the engine of get_holders.py;              *)
(*   ServiceSpec  crawls run by the engine of token_holders_service.py.    *)
(*                                                                         *)
(* Python values are modelled as follows.  An Optional value is a set, {}  *)
(* for None and {v} for v.  A JSON object is a record, a dict keyed by     *)
(* contract address is a function whose domain is the set of its keys.  An *)
(* Enum member is a record of its class and its value: members of two Enum *)
(* classes are never equal, whatever their values.  The record timestamps  *)
(* ProcessedContract.processed_at and ParsingProgress.last_processed_at    *)
(* are written by the code and read by nothing; they are not carried.      *)
(***************************************************************************)
EXTENDS Integers, Sequences, FiniteSets, TLC

VARIABLES
    contracts,            \* processed_contracts.json: the "contracts" list
    progress,             \* parsing_progress.json: the "progress" dict
    pending,              \* pending_holders.json: the "pending" dict
    proxies,              \* ProxyManager.proxies: url -> ProxyStatus
    proxies_data,         \* .scratch/proxies_data.json (proxy_config.DATA_FILE)
    current_proxy_index,  \* ProxyManager.current_proxy_index
    now,                  \* time.time()
    api_keys,             \* ApiKeyManager._api_keys
    key_index,            \* position of ApiKeyManager._key_cycle
    is_interrupted,       \* get_holders.is_interrupted
    run,                  \* the engine invocation in flight: its locals and position
    runs,                 \* engine invocations started so far
    call,                 \* the last DBManager writer called directly (StoreSpec)
    tasks,                \* the tasks submitted by ThreadManager.process_tasks
    _lock,                \* ThreadManager._lock: the thread that holds it
    results,              \* process_tasks: its list `results`
    scheduler,            \* process_tasks: its position and the futures yielded
    header_manager,       \* the HeaderManager: headers_status, current_header_index, _lock
    header_calls          \* the coroutines calling the HeaderManager: their position

vars == <<contracts, progress, pending, proxies, proxies_data, current_proxy_index, now,
          api_keys, header_manager, header_calls, key_index, is_interrupted, run, runs, call, tasks, _lock, results, scheduler>>

(***************************************************************************)
(* Bounds of the model.                                                    *)
(***************************************************************************)
MaxRuns == 2          \* engine invocations per behaviour
MaxRequests == 2      \* page requests per engine invocation
MaxPage == 3          \* page numbers the upstream hands out: 1..MaxPage
MaxCalls == 3         \* direct DBManager calls per behaviour (StoreSpec)
MaxPoolCalls == 4     \* selections per behaviour (PoolSpec)
MaxContracts == 3     \* lines of contracts.txt (ScheduleSpec)
MaxTicks == 3         \* steps of the clock, half a cooldown each (PoolSpec)
MaxHeaderCalls == 2    \* wrapped requests per coroutine (HeaderSpec)
MaxKeyCalls == 6       \* calls of get_next_key (KeySpec)
MaxCycles == 2         \* full cycles of get_next_header that are counted (HeaderSpec)

(***************************************************************************)
(* Small input sets.                                                       *)
(***************************************************************************)
None == {}
Some(v) == {v}
TheValue(opt) == CHOOSE v \in opt : TRUE

Pages == 1..MaxPage

Range(s) == {s[i] : i \in 1..Len(s)}

(***************************************************************************)
(* ParsingStatus: two Enum classes with overlapping values.                *)
(***************************************************************************)
DB(v) == [enum |-> "db_manager.ParsingStatus", value |-> v]
MD(v) == [enum |-> "models.ParsingStatus", value |-> v]

DBStatusValues == {"not_started", "in_progress", "completed", "failed"}

\* db_manager.ParsingStatus(value): the member, or ValueError (None here)
ParsingStatusOfValue(v) == IF v \in DBStatusValues THEN Some(DB(v)) ELSE None

(***************************************************************************)
(* datetime.isoformat / datetime.fromisoformat on the instants 1 and 2.    *)
(***************************************************************************)
Instants == {1, 2}

IsoFormat(t) ==
    CASE t = 1 -> "2025-01-01T00:00:01"
      [] t = 2 -> "2025-01-01T00:00:02"

FromIsoFormat(s) == CHOOSE t \in Instants : IsoFormat(t) = s

\* datetime.now() where the engines and DBManager stamp a record
datetime_now == 1

(***************************************************************************)
(* TokenHolder.  cls names the class of the object: db_manager.TokenHolder *)
(* has four fields, models.TokenHolder has address and balance only.       *)
(***************************************************************************)
DBHolder(a, b, p, at) ==
    [cls |-> "db_manager.TokenHolder", address |-> a, balance |-> b,
     processed |-> p, processed_at |-> at]

MDHolder(a, b) ==
    [cls |-> "models.TokenHolder", address |-> a, balance |-> b,
     processed |-> FALSE, processed_at |-> None]

TokenHolder_to_dict(h) ==
    IF h.cls = "db_manager.TokenHolder"
    THEN [address |-> h.address, balance |-> h.balance, processed |-> h.processed,
          processed_at |-> {IsoFormat(t) : t \in h.processed_at}]
    ELSE [address |-> h.address, balance |-> h.balance]

TokenHolder_from_dict(d) ==
    DBHolder(d.address, d.balance,
             IF "processed" \in DOMAIN d THEN d.processed ELSE FALSE,
             IF "processed_at" \in DOMAIN d
             THEN {FromIsoFormat(s) : s \in d.processed_at} ELSE None)

HoldersToDicts(hs) == [i \in 1..Len(hs) |-> TokenHolder_to_dict(hs[i])]
HoldersFromDicts(ds) == [i \in 1..Len(ds) |-> TokenHolder_from_dict(ds[i])]
Addresses(hs) == [i \in 1..Len(hs) |-> hs[i].address]

(***************************************************************************)
(* ProcessedContract.                                                      *)
(***************************************************************************)
ProcessedContractAt(a, ch, at, n, hs, st) ==
    [address |-> a, chain |-> ch, processed_at |-> at, holders_count |-> n,
     holders |-> hs, status |-> st]

\* ProcessedContract(..., processed_at=datetime.now(), ...)
ProcessedContract(a, ch, n, hs, st) == ProcessedContractAt(a, ch, datetime_now, n, hs, st)

ProcessedContract_to_dict(c) ==
    [address |-> c.address, chain |-> c.chain,
     processed_at |-> IsoFormat(c.processed_at),
     holders_count |-> c.holders_count,
     holders |-> HoldersToDicts(c.holders), status |-> c.status.value]

\* from_dict with the status read as COMPLETED whatever the dict says
ProcessedContract_from_dict_DefaultStatus(d) ==
    Some(ProcessedContractAt(d.address, d.chain, FromIsoFormat(d.processed_at),
                             d.holders_count, HoldersFromDicts(d.holders),
                             DB("completed")))

\* None when ParsingStatus(data["status"]) raises
ProcessedContract_from_dict(d) ==
    IF ParsingStatusOfValue(d.status) = None THEN None
    ELSE Some(ProcessedContractAt(d.address, d.chain, FromIsoFormat(d.processed_at),
                                  d.holders_count, HoldersFromDicts(d.holders),
                                  TheValue(ParsingStatusOfValue(d.status))))

(***************************************************************************)
(* ParsingProgress.                                                        *)
(***************************************************************************)
ParsingProgressAt(a, page, total, at, st, msg) ==
    [contract_address |-> a, current_page |-> page, total_pages |-> total,
     last_processed_at |-> at, status |-> st, error_message |-> msg]

\* ParsingProgress(..., last_processed_at=datetime.now(), ...)
ParsingProgress(a, page, total, st, msg) ==
    ParsingProgressAt(a, page, total, datetime_now, st, msg)

ParsingProgress_to_dict(p) ==
    [contract_address |-> p.contract_address, current_page |-> p.current_page,
     total_pages |-> p.total_pages,
     last_processed_at |-> IsoFormat(p.last_processed_at),
     status |-> p.status.value,
     error_message |-> p.error_message]

ParsingProgress_from_dict(d) ==
    ParsingProgressAt(d.contract_address, d.current_page, d.total_pages,
                      FromIsoFormat(d.last_processed_at),
                      TheValue(ParsingStatusOfValue(d.status)), d.error_message)

(***************************************************************************)
(* DBManager: the readers.                                                 *)
(***************************************************************************)
\* a lookup that never finds the record
IndexOfAddress_NotFound(cs, a) == 0

\* the index of the first record of cs with this address, 0 if none
IndexOfAddress(cs, a) ==
    IF \E i \in 1..Len(cs) : cs[i].address = a
    THEN CHOOSE i \in 1..Len(cs) :
            /\ cs[i].address = a
            /\ \A j \in 1..(i - 1) : cs[j].address # a
    ELSE 0

get_processed_contract(cs, a) ==
    IF IndexOfAddress(cs, a) = 0 THEN None
    ELSE ProcessedContract_from_dict(cs[IndexOfAddress(cs, a)])

get_parsing_progress(pr, a) ==
    IF a \in DOMAIN pr THEN Some(ParsingProgress_from_dict(pr[a])) ELSE None

get_pending_holders(pd, a) ==
    IF a \in DOMAIN pd THEN HoldersFromDicts(pd[a]) ELSE <<>>

\* ParsingStatus(progress["status"]) raises for a value that is no status,
\* and the method then returns []
get_unfinished_contracts(pr) ==
    IF \E a \in DOMAIN pr : ParsingStatusOfValue(pr[a].status) = None THEN {}
    ELSE {a \in DOMAIN pr : TheValue(ParsingStatusOfValue(pr[a].status))
                                \in {DB("in_progress"), DB("failed")}}

(***************************************************************************)
(* DBManager: the writers, as functions of the file contents.              *)
(***************************************************************************)
DictPut(f, k, v) == [x \in DOMAIN f \cup {k} |-> IF x = k THEN v ELSE f[x]]
DictDel(f, k) == [x \in DOMAIN f \ {k} |-> f[x]]

save_parsing_progress(pr, p) ==
    DictPut(pr, p.contract_address, ParsingProgress_to_dict(p))

remove_parsing_progress(pr, a) == DictDel(pr, a)

\* existing.holders + [h for h in contract.holders
\*                     if h.address not in existing_addresses]
MergeHolders_Overwrite(existing, incoming) == incoming

MergeHolders_Prepend(existing, incoming) ==
    LET existing_addresses == {existing[i].address : i \in 1..Len(existing)}
        new_holders == SelectSeq(incoming, LAMBDA h : h.address \notin existing_addresses)
    IN  new_holders \o existing

MergeHolders_NoFilter(existing, incoming) == existing \o incoming

MergeHolders(existing, incoming) ==
    LET existing_addresses == {existing[i].address : i \in 1..Len(existing)}
        new_holders == SelectSeq(incoming, LAMBDA h : h.address \notin existing_addresses)
    IN  existing \o new_holders

\* the "contracts" list that save_processed_contract writes
SavedContracts(cs, contract) ==
    LET i == IndexOfAddress(cs, contract.address) IN
    IF i = 0 THEN Append(cs, ProcessedContract_to_dict(contract))
    ELSE LET existing == ProcessedContract_from_dict(cs[i]) IN
         IF existing # None
         THEN LET all_holders == MergeHolders(TheValue(existing).holders, contract.holders)
                  updated_contract ==
                      ProcessedContract(contract.address, contract.chain,
                                        Len(all_holders), all_holders, contract.status)
              IN  [cs EXCEPT ![i] = ProcessedContract_to_dict(updated_contract)]
         ELSE [cs EXCEPT ![i] = ProcessedContract_to_dict(contract)]

\* the progress dict after save_processed_contract: the record is removed
\* when contract.status == db_manager.ParsingStatus.COMPLETED
ProgressAfterSave(pr, contract) ==
    IF contract.status = DB("completed")
    THEN remove_parsing_progress(pr, contract.address)
    ELSE pr

\* the "pending" dict that add_pending_holders writes
AddedPending(pd, a, holders) ==
    LET existing_holders == get_pending_holders(pd, a)
        existing_addresses == {existing_holders[i].address : i \in 1..Len(existing_holders)}
        new_holders == SelectSeq(holders, LAMBDA h : h.address \notin existing_addresses)
    IN  DictPut(pd, a, HoldersToDicts(existing_holders \o new_holders))

(***************************************************************************)
(* ProxyManager.  The pool is the ordered list of config/proxies.txt; its  *)
(* state is saved to DATA_FILE after every mutation.                       *)
(***************************************************************************)
MAX_CONCURRENT_REQUESTS == 10
COOLDOWN_TIME == 120
MAX_FAILS == 20
MAX_REQUESTS_PER_PROXY == 200

\* the lines of config/proxies.txt: the pool of the crawls, and a longer file
ProxyUrls == <<"http://proxy-1:8080", "http://proxy-2:8080">>
ProxyFile == ProxyUrls \o <<"http://proxy-3:8080">>

\* list(self.proxies.keys()): the urls of the pool in the order of the file
ProxyKeys(px) == SelectSeq(ProxyFile, LAMBDA u : u \in DOMAIN px)

ProxyStatus(w, f, cd, n) ==
    [is_working |-> w, fails_count |-> f, cooldown_until |-> cd, requests_count |-> n]

\* a cooldown that keeps the count of requests
_set_cooldown_KeepCount(px, url, t) ==
    [px EXCEPT ![url].cooldown_until = Some(t + COOLDOWN_TIME)]

_set_cooldown(px, url, t) ==
    [px EXCEPT ![url].cooldown_until = Some(t + COOLDOWN_TIME),
               ![url].requests_count = 0]

_handle_proxy_error(px, url, t) ==
    LET failed == [px EXCEPT ![url].fails_count = @ + 1] IN
    IF failed[url].fails_count >= MAX_FAILS
    THEN _set_cooldown([failed EXCEPT ![url].is_working = FALSE], url, t)
    ELSE failed

_handle_proxy_success(px, url) ==
    [px EXCEPT ![url].fails_count = 0, ![url].requests_count = @ + 1]

RECURSIVE ScanProxies(_, _, _, _)
\* the while loop of _get_next_available_proxy with `attempts` attempts left:
\* the pool, the index and the proxy it ends with (None: no proxy)
ScanProxies(px, idx, attempts, t) ==
    IF attempts <= 0 THEN [proxies |-> px, index |-> idx, url |-> None]
    ELSE LET i == (idx + 1) % Len(ProxyKeys(px))
             url == ProxyKeys(px)[i + 1]
         IN  IF ~px[url].is_working
             THEN ScanProxies(px, i, attempts - 1, t)
             ELSE IF px[url].cooldown_until # None /\ t < TheValue(px[url].cooldown_until)
             THEN ScanProxies(px, i, attempts - 1, t)
             ELSE IF px[url].requests_count >= MAX_REQUESTS_PER_PROXY
             THEN ScanProxies(_set_cooldown(px, url, t), i, attempts - 1, t)
             ELSE [proxies |-> px, index |-> i, url |-> Some(url)]

\* the next proxy in the order, whatever its state
_get_next_available_proxy_Unchecked(px, idx, t) ==
    IF Len(ProxyKeys(px)) = 0 THEN [proxies |-> px, index |-> idx, url |-> None]
    ELSE [proxies |-> px, index |-> (idx + 1) % Len(ProxyKeys(px)),
          url |-> Some(ProxyKeys(px)[((idx + 1) % Len(ProxyKeys(px))) + 1])]

\* one attempt only
_get_next_available_proxy_OneAttempt(px, idx, t) ==
    ScanProxies(px, idx, IF Len(ProxyKeys(px)) = 0 THEN 0 ELSE 1, t)

_get_next_available_proxy(px, idx, t) == ScanProxies(px, idx, Len(ProxyKeys(px)), t)

\* a number or null of the state file
JsonNumber(opt) ==
    IF opt = None THEN [type |-> "null", value |-> 0]
    ELSE [type |-> "number", value |-> TheValue(opt)]

FromJsonNumber(j) == IF j.type = "null" THEN None ELSE Some(j.value)

\* _save_proxy_data: the file it writes, {url: status.__dict__}
_save_proxy_data(px) ==
    Some([u \in DOMAIN px |->
             [url |-> u, is_working |-> px[u].is_working,
              fails_count |-> px[u].fails_count,
              cooldown_until |-> JsonNumber(px[u].cooldown_until),
              requests_count |-> px[u].requests_count]])

\* _load_proxies: an entry with the defaults of ProxyStatus for every line
_load_proxies(lines) == [u \in Range(lines) |-> ProxyStatus(TRUE, 0, None, 0)]

\* a restart that does not read the state file
_load_proxy_data_Ignored(px, file) == px

\* _load_proxy_data: ProxyStatus(**status) for every url of the file that is
\* in the pool; the pool as it is when there is no file
_load_proxy_data(px, file) ==
    IF file = None THEN px
    ELSE LET data == TheValue(file) IN
         [u \in DOMAIN px |->
             IF u \in DOMAIN data
             THEN ProxyStatus(data[u].is_working, data[u].fails_count,
                              FromJsonNumber(data[u].cooldown_until),
                              data[u].requests_count)
             ELSE px[u]]

\* a pool whose state file does not exist yet
FreshPool == [u \in Range(ProxyUrls) |-> ProxyStatus(TRUE, 0, None, 0)]

\* a pool loaded from the state file of earlier crawls: the first proxy was
\* put in cooldown at time 0, the second is one request short of its quota
WornPool ==
    [u \in Range(ProxyUrls) |->
        IF u = ProxyUrls[1] THEN ProxyStatus(TRUE, 0, Some(COOLDOWN_TIME), 0)
        ELSE ProxyStatus(TRUE, 0, None, MAX_REQUESTS_PER_PROXY - 1)]

(***************************************************************************)
(* ApiKeyManager: itertools.cycle over the keys of the key file.           *)
(***************************************************************************)
LoadedKeys == <<"key-1", "key-2">>

\* the key file: missing (None), or its lines
KeyFiles == {None, Some(<<>>), Some(<<" ", "">>), Some(<<"key-1 ", "", "key-2">>)}

\* str.strip() on the lines used here
Strip(line) ==
    CASE line = " " -> ""
      [] line = "key-1 " -> "key-1"
      [] OTHER -> line

\* _load_api_keys: the stripped non-blank lines; [] for a missing or empty file
_load_api_keys(file) ==
    IF file = None THEN <<>>
    ELSE LET lines == TheValue(file)
             stripped == [i \in 1..Len(lines) |-> Strip(lines[i])]
         IN  SelectSeq(stripped, LAMBDA k : k # "")

\* a cycle that never moves on
get_next_key_Stuck(keys, pos) ==
    IF keys = <<>> THEN [key |-> None, pos |-> pos]
    ELSE [key |-> Some(keys[pos + 1]), pos |-> pos]

\* get_next_key: the key (None without keys) and the cycle's next position
get_next_key(keys, pos) ==
    IF keys = <<>> THEN [key |-> None, pos |-> pos]
    ELSE [key |-> Some(keys[pos + 1]), pos |-> (pos + 1) % Len(keys)]

(***************************************************************************)
(* The contract list and get_chain_id.                                     *)
(***************************************************************************)
ContractList ==
    <<[address |-> "0xABC", chain |-> "ethereum"],
      [address |-> "0xDEF", chain |-> "solana"]>>

\* chain_config.CHAIN_MAPPING.get(chain_name), on the chain names used here
get_chain_id(chain_name) ==
    CASE chain_name = "ethereum" -> Some("1")
      [] chain_name = "bsc" -> Some("56")
      [] OTHER -> None

(***************************************************************************)
(* The upstream call.  A response is None (kind "none": a transport error  *)
(* or a body that is not JSON, caught in _make_async_request) or the       *)
(* ApiResponse that ApiResponse.from_response builds.                      *)
(***************************************************************************)
PageData == {<<>>, <<"0x1">>, <<"0x2">>, <<"0x1", "0x1">>, <<"0x1", "0x2">>}

NoneResponse == [kind |-> "none", status_code |-> 0, message |-> "",
                 data |-> <<>>, next_page |-> None]

\* ApiResponse.from_response(status_code, data)
from_response(status_code, body) ==
    IF 200 <= status_code /\ status_code < 300
    THEN [kind |-> "SuccessResponse", status_code |-> status_code,
          message |-> body.message, data |-> body.data, next_page |-> body.next_page]
    ELSE [kind |-> "ErrorResponse", status_code |-> status_code,
          message |-> body.message, data |-> <<>>, next_page |-> None]

UpstreamBodies ==
    {[message |-> "ok", data |-> d, next_page |-> n] :
        d \in PageData, n \in {None} \cup {Some(p) : p \in Pages}}

ErrorBodies ==
    {[message |-> m, data |-> <<>>, next_page |-> None] : m \in {"", "Internal Server Error"}}

UpstreamResponses ==
    {NoneResponse} \cup {from_response(200, b) : b \in UpstreamBodies}
                   \cup {from_response(500, b) : b \in ErrorBodies}

is_success(r) == 200 <= r.status_code /\ r.status_code < 300

\* `not response or not response.is_success`
Failed(r) == r.kind = "none" \/ ~is_success(r)

\* a next page only behind a page that holds addresses
has_next_page_NonEmpty(r) ==
    IF ~is_success(r) \/ r.kind # "SuccessResponse" THEN FALSE
    ELSE r.next_page # None /\ r.data # <<>>

has_next_page(r) ==
    IF ~is_success(r) \/ r.kind # "SuccessResponse" THEN FALSE
    ELSE r.next_page # None

\* the page after `page`, counted by the engine
NextPage_Local(r, page) == page + 1

\* line 231: current_page = response.response.next_page
NextPage(r, page) == TheValue(r.next_page)

(***************************************************************************)
(* The state shared by the specifications: an empty store, no crawl.       *)
(***************************************************************************)
EmptyDict == [x \in {} |-> {}]

NoContract == [address |-> "", chain |-> ""]

NoResponse == [kind |-> "unset", status_code |-> 0, message |-> "",
               data |-> <<>>, next_page |-> None]

NoSnapshot == [contracts |-> <<>>, progress |-> EmptyDict, pending |-> EmptyDict,
               proxies |-> EmptyDict, key_index |-> 0, current_proxy_index |-> 0]

IdleRun ==
    [pc |-> "idle", contract |-> NoContract, existing_holders |-> <<>>,
     all_holders |-> <<>>, start_page |-> 0, current_page |-> 0,
     response |-> NoResponse, to_pending |-> <<>>, cont |-> "idle",
     result |-> <<>>, requests |-> <<>>, fetched |-> <<>>, at_start |-> NoSnapshot]

NoData == [progress |-> EmptyDict, contracts |-> <<>>, pending |-> EmptyDict]

\* `todo` lists the DBManager writers the crawl calls, `at` is the one it has
\* come to, `data` what the writer in progress loaded from each file
NoTask == [pc |-> "none", holders |-> <<>>, todo |-> <<>>, at |-> 1, data |-> NoData,
           existing |-> <<>>, semaphore |-> None, in_flight |-> 0]

\* process_tasks not called; `yielded` lists the tasks in the order
\* as_completed yielded their futures, `appended` those whose result was
\* appended to `results`
NoScheduler == [pc |-> "none", all_contracts |-> <<>>, contracts |-> <<>>,
                yielded |-> <<>>, appended |-> <<>>]

\* no HeaderManager was constructed and no coroutine calls one
NoHeaderManager ==
    [headers_status |-> <<>>, current_header_index |-> 0, _lock |-> None]

NoHeaderCalls == <<>>

NoTasks == [w \in {} |-> NoTask]

NoCall == [op |-> "none", n |-> 0, address |-> "", disk |-> "ok", raised |-> FALSE]

(***************************************************************************)
(* StoreSpec: the DBManager writers called directly, one call at a time,   *)
(* on a store that starts empty (DBManager._initialize_db).                *)
(***************************************************************************)
StoreAddrs == {"0xABC", "0xDEF"}

\* the statuses callers pass: the members of db_manager.ParsingStatus the crawl
\* uses, and models.ParsingStatus.COMPLETED as token_holders_service.py passes it
StatusInputs == {DB("in_progress"), DB("completed"), MD("completed")}

\* holder lists passed to save_processed_contract: empty, one entry, an address
\* repeated, two addresses, an address whose entry differs from an earlier one
HolderListInputs ==
    LET P(a) == DBHolder(a, "0", FALSE, None)
        R(a) == DBHolder(a, "7", TRUE, Some(1))
    IN  {<<>>, <<P("0x1")>>, <<R("0x1")>>, <<P("0x1"), P("0x1")>>,
         <<P("0x2"), P("0x2")>>, <<P("0x1"), R("0x2")>>, <<R("0x2"), P("0x1")>>,
         <<R("0x1"), P("0x2")>>}

\* holders_count is the caller's: the length of the list, or (tried on the
\* lists of at most one entry) one more
ContractInputs ==
    {ProcessedContract(a, "ethereum", Len(hs), hs, st) :
        a \in StoreAddrs, hs \in HolderListInputs, st \in StatusInputs}
    \cup {ProcessedContract(a, "ethereum", Len(hs) + 1, hs, st) :
        a \in StoreAddrs, hs \in {x \in HolderListInputs : Len(x) <= 1},
        st \in StatusInputs}

ProgressInputs ==
    {ParsingProgress(a, page, None, st, None) :
        a \in StoreAddrs, page \in {MaxPage}, st \in {DB("in_progress"), DB("failed")}}

StoreInit ==
    /\ contracts = <<>>
    /\ progress = EmptyDict
    /\ pending = EmptyDict
    /\ proxies = FreshPool
    /\ proxies_data = _save_proxy_data(proxies)
    /\ current_proxy_index = 0
    /\ now = 0
    /\ api_keys = LoadedKeys
    /\ header_manager = NoHeaderManager
    /\ header_calls = NoHeaderCalls
    /\ key_index = 0
    /\ is_interrupted = FALSE
    /\ run = IdleRun
    /\ runs = 0
    /\ call = NoCall
    /\ tasks = NoTasks
    /\ _lock = None
    /\ results = <<>>
    /\ scheduler = NoScheduler

EngineUnchanged ==
    UNCHANGED <<proxies, proxies_data, current_proxy_index, now, api_keys, header_manager, header_calls, key_index,
                is_interrupted, run, runs, tasks, _lock, results, scheduler>>

\* what the disk does to a write: it succeeds, open(file_path, 'w') fails, or
\* json.dump fails after open has truncated the file
DiskOutcomes == {"ok", "open_failed", "write_failed"}

\* _save_json: the content _load_json reads back afterwards (the default data
\* for a file that is no JSON any more), and whether the call raised: the
\* exception is logged, not raised
_save_json(old, data, default, disk) ==
    [content |-> CASE disk = "ok" -> data
                   [] disk = "open_failed" -> old
                   [] disk = "write_failed" -> default,
     raised |-> FALSE]

\* DBManager.save_processed_contract(contract), the write of
\* processed_contracts.json ending as `disk`
SaveProcessedContractOn(c, disk) ==
    LET w == _save_json(contracts, SavedContracts(contracts, c), <<>>, disk) IN
    /\ call.n < MaxCalls
    /\ contracts' = w.content
    /\ progress' = IF w.raised THEN progress ELSE ProgressAfterSave(progress, c)
    /\ call' = [op |-> "save_processed_contract", n |-> call.n + 1,
                address |-> c.address, disk |-> disk, raised |-> w.raised]
    /\ UNCHANGED pending
    /\ EngineUnchanged

\* DBManager.save_parsing_progress(progress), the write of
\* parsing_progress.json ending as `disk`
SaveParsingProgressOn(p, disk) ==
    LET w == _save_json(progress, save_parsing_progress(progress, p), EmptyDict, disk) IN
    /\ call.n < MaxCalls
    /\ progress' = w.content
    /\ call' = [op |-> "save_parsing_progress", n |-> call.n + 1,
                address |-> p.contract_address, disk |-> disk, raised |-> FALSE]
    /\ UNCHANGED <<contracts, pending>>
    /\ EngineUnchanged

SaveProcessedContractCall == \E c \in ContractInputs : SaveProcessedContractOn(c, "ok")

SaveParsingProgressCall == \E p \in ProgressInputs : SaveParsingProgressOn(p, "ok")

StoreNext == SaveProcessedContractCall \/ SaveParsingProgressCall

StoreSpec == StoreInit /\ [][StoreNext]_vars

(***************************************************************************)
(* FaultSpec: the same calls on a disk whose writes may fail.              *)
(***************************************************************************)
SaveProcessedContractFault ==
    \E c \in ContractInputs, disk \in DiskOutcomes : SaveProcessedContractOn(c, disk)

SaveParsingProgressFault ==
    \E p \in ProgressInputs, disk \in DiskOutcomes : SaveParsingProgressOn(p, disk)

FaultNext == SaveProcessedContractFault \/ SaveParsingProgressFault

FaultSpec == StoreInit /\ [][FaultNext]_vars

(***************************************************************************)
(* The engine of get_holders.py: TokenHoldersService._get_holders_async.   *)
(* ThreadManager._safe_worker holds one lock around a whole crawl, so one  *)
(* invocation is in flight at a time.  A step is one store write or one    *)
(* page request, with the local computation that leads to it; is_interrupted*)
(* is read where the code reads it (the while condition, line 234).        *)
(***************************************************************************)
Snapshot ==
    [contracts |-> contracts, progress |-> progress, pending |-> pending,
     proxies |-> proxies, key_index |-> key_index,
     current_proxy_index |-> current_proxy_index]

Returned == run.pc = "done"
NoCrawl == run.pc \in {"idle", "done", "raised"}

\* the Exception of with_proxy leaves _get_holders_async: nothing more is written
Raised == [run EXCEPT !.pc = "raised"]

\* lines 166-184
StartPage(prog) ==
    IF prog # None /\ TheValue(prog).status = DB("in_progress")
    THEN TheValue(prog).current_page
    ELSE 1

IsCompleted_Never(pc) == FALSE

IsCompleted(pc) == pc # None /\ TheValue(pc).status = DB("completed")

Begin(c) ==
    /\ NoCrawl
    /\ runs < MaxRuns
    /\ runs' = runs + 1
    /\ LET processed_contract == get_processed_contract(contracts, c.address)
           prog == get_parsing_progress(progress, c.address)
       IN  IF IsCompleted(processed_contract)
           THEN run' = [IdleRun EXCEPT !.pc = "done", !.contract = c,
                                       !.result = <<>>, !.at_start = Snapshot]
           ELSE run' = [IdleRun EXCEPT
                           !.pc = "loop", !.contract = c,
                           !.existing_holders =
                               IF processed_contract # None
                               THEN TheValue(processed_contract).holders ELSE <<>>,
                           !.start_page = StartPage(prog),
                           !.current_page = StartPage(prog),
                           !.at_start = Snapshot]
    /\ UNCHANGED <<contracts, progress, pending, proxies, proxies_data, current_proxy_index, now,
                   api_keys, header_manager, header_calls, key_index, is_interrupted, call, tasks, _lock, results, scheduler>>

GetHoldersBegin == \E i \in 1..Len(ContractList) : Begin(ContractList[i])

\* ProxyManager.with_proxy around _make_async_request, for the page run.current_page:
\* the proxy is selected, the request is made, the proxy gets the feedback
ProxiedRequest ==
    LET sel == _get_next_available_proxy(proxies, current_proxy_index, now) IN
    /\ current_proxy_index' = sel.index
    /\ IF sel.url = None
       THEN /\ run' = Raised
            /\ proxies' = sel.proxies
            /\ proxies_data' = IF sel.proxies = proxies THEN proxies_data
                                ELSE _save_proxy_data(sel.proxies)
            /\ UNCHANGED key_index
       ELSE /\ proxies' = _handle_proxy_success(sel.proxies, TheValue(sel.url))
            /\ proxies_data' = _save_proxy_data(proxies')
            /\ IF get_chain_id(run.contract.chain) = None
               THEN /\ run' = [run EXCEPT !.pc = "got_response", !.response = NoneResponse]
                    /\ UNCHANGED key_index
               ELSE LET k == get_next_key(api_keys, key_index) IN
                    /\ key_index' = k.pos
                    /\ IF k.key = None
                       THEN run' = [run EXCEPT !.pc = "got_response",
                                               !.response = NoneResponse]
                       ELSE \E r \in UpstreamResponses :
                               run' = [run EXCEPT !.pc = "got_response",
                                                  !.response = r,
                                                  !.requests = Append(@, run.current_page),
                                                  !.fetched = Append(@, r.data)]

\* lines 187-190
GetHoldersRequest ==
    /\ run.pc = "loop"
    /\ IF is_interrupted
       THEN /\ run' = [run EXCEPT !.pc = "after_loop"]
            /\ UNCHANGED <<proxies, proxies_data, current_proxy_index, key_index>>
       ELSE /\ Len(run.requests) < MaxRequests
            /\ ProxiedRequest
    /\ UNCHANGED <<contracts, progress, pending, now, api_keys, header_manager, header_calls, is_interrupted,
                   runs, call, tasks, _lock, results, scheduler>>

ErrorMessage(r) == IF r.kind # "none" THEN r.message ELSE "unknown error"

\* a loop that asks for the failed page again
GetHoldersResponse_Retry ==
    /\ run.pc = "got_response"
    /\ IF Failed(run.response)
       THEN /\ progress' = save_parsing_progress(progress,
                              ParsingProgress(run.contract.address, run.current_page, None,
                                              DB("failed"), Some(ErrorMessage(run.response))))
            /\ run' = [run EXCEPT !.pc = "loop"]
       ELSE /\ progress' = save_parsing_progress(progress,
                              ParsingProgress(run.contract.address, run.current_page, None,
                                              DB("in_progress"), None))
            /\ run' = [run EXCEPT !.pc = "save_holders",
                                  !.all_holders = @ \o run.response.data]
    /\ UNCHANGED <<contracts, pending, proxies, proxies_data, current_proxy_index, now, api_keys, header_manager, header_calls,
                   key_index, is_interrupted, runs, call, tasks, _lock, results, scheduler>>

\* lines 192-222
GetHoldersResponse ==
    /\ run.pc = "got_response"
    /\ IF Failed(run.response)
       THEN /\ progress' = save_parsing_progress(progress,
                              ParsingProgress(run.contract.address, run.current_page, None,
                                              DB("failed"), Some(ErrorMessage(run.response))))
            /\ run' = [run EXCEPT !.pc = "after_loop"]
       ELSE /\ progress' = save_parsing_progress(progress,
                              ParsingProgress(run.contract.address, run.current_page, None,
                                              DB("in_progress"), None))
            /\ run' = [run EXCEPT !.pc = "save_holders",
                                  !.all_holders = @ \o run.response.data]
    /\ UNCHANGED <<contracts, pending, proxies, proxies_data, current_proxy_index, now, api_keys, header_manager, header_calls,
                   key_index, is_interrupted, runs, call, tasks, _lock, results, scheduler>>

\* _save_intermediate_holders, lines 263-284: the TokenHolder objects of the
\* fetched addresses that are not among existing_holders, and the record to save
NewTokenHolders(new_holders, existing_holders) ==
    LET existing_addresses == {existing_holders[i].address : i \in 1..Len(existing_holders)}
        fresh == SelectSeq(new_holders, LAMBDA a : a \notin existing_addresses)
    IN  [i \in 1..Len(fresh) |-> DBHolder(fresh[i], "0", FALSE, None)]

\* a record saved with the holders of earlier runs only
IntermediateContract_ExistingOnly(c, new_holders, existing_holders, status) ==
    ProcessedContract(c.address, c.chain, Len(existing_holders),
                      existing_holders, status)

IntermediateContract(c, new_holders, existing_holders, status) ==
    LET all_token_holders == existing_holders \o NewTokenHolders(new_holders, existing_holders)
    IN  ProcessedContract(c.address, c.chain, Len(all_token_holders),
                          all_token_holders, status)

\* an engine that goes on without writing the holders
SaveIntermediateHolders_NotSaved(status, next) ==
    /\ run' = [run EXCEPT !.pc = next, !.cont = next, !.result = run.all_holders,
                          !.current_page =
                              IF next = "loop" THEN NextPage(run.response, @) ELSE @]
    /\ UNCHANGED <<contracts, progress>>

\* _save_intermediate_holders up to save_processed_contract (line 286); the call
\* of add_pending_holders (lines 287-288) is the next step, then position `next`
SaveIntermediateHolders(status, next) ==
    LET pc == IntermediateContract(run.contract, run.all_holders,
                                   run.existing_holders, status)
        new_token_holders == NewTokenHolders(run.all_holders, run.existing_holders)
    IN  /\ contracts' = SavedContracts(contracts, pc)
        /\ progress' = ProgressAfterSave(progress, pc)
        /\ run' = [run EXCEPT
                      !.pc = IF new_token_holders # <<>> THEN "add_pending" ELSE next,
                      !.cont = next,
                      !.to_pending = new_token_holders,
                      !.result = run.all_holders,
                      !.current_page =
                          IF next = "loop" THEN NextPage(run.response, @) ELSE @]

\* no holders to save: on to position `next`
SkipHolders(next) ==
    /\ run' = [run EXCEPT !.pc = next, !.result = run.all_holders,
                          !.current_page =
                              IF next = "loop" THEN NextPage(run.response, @) ELSE @]
    /\ UNCHANGED <<contracts, progress>>

\* lines 225-231
GetHoldersSaveHolders ==
    /\ run.pc = "save_holders"
    /\ LET next == IF has_next_page(run.response) THEN "loop" ELSE "after_loop" IN
       IF run.all_holders # <<>>
       THEN SaveIntermediateHolders(DB("in_progress"), next)
       ELSE SkipHolders(next)
    /\ UNCHANGED <<pending, proxies, proxies_data, current_proxy_index, now, api_keys, header_manager, header_calls, key_index,
                   is_interrupted, runs, call, tasks, _lock, results, scheduler>>

\* lines 287-288: add_pending_holders
AddPending ==
    /\ run.pc = "add_pending"
    /\ pending' = AddedPending(pending, run.contract.address, run.to_pending)
    /\ run' = [run EXCEPT !.pc = run.cont]
    /\ UNCHANGED <<contracts, progress, proxies, proxies_data, current_proxy_index, now, api_keys, header_manager, header_calls,
                   key_index, is_interrupted, runs, call, tasks, _lock, results, scheduler>>

\* line 234: `is_interrupted or (not response or not response.is_success)`;
\* response is unbound only when the loop body never ran, and then
\* is_interrupted is true
EndedUnfinished == is_interrupted \/ Failed(run.response)

\* lines 234-245 and 253-257
GetHoldersAfterLoop ==
    /\ run.pc = "after_loop"
    /\ IF EndedUnfinished
       THEN /\ progress' = save_parsing_progress(progress,
                              ParsingProgress(run.contract.address, run.current_page, None,
                                              DB("in_progress"), None))
            /\ run' = [run EXCEPT !.pc = "final_holders"]
            /\ UNCHANGED contracts
       ELSE IF run.all_holders # <<>> \/ run.existing_holders # <<>>
            THEN SaveIntermediateHolders(DB("completed"), "done")
            ELSE SkipHolders("done")
    /\ UNCHANGED <<pending, proxies, proxies_data, current_proxy_index, now, api_keys, header_manager, header_calls, key_index,
                   is_interrupted, runs, call, tasks, _lock, results, scheduler>>

\* lines 248-251
GetHoldersFinalHolders ==
    /\ run.pc = "final_holders"
    /\ IF run.all_holders # <<>>
       THEN SaveIntermediateHolders(DB("in_progress"), "done")
       ELSE SkipHolders("done")
    /\ UNCHANGED <<pending, proxies, proxies_data, current_proxy_index, now, api_keys, header_manager, header_calls, key_index,
                   is_interrupted, runs, call, tasks, _lock, results, scheduler>>

\* SIGINT: handle_interrupt
Interrupt ==
    /\ ~is_interrupted
    /\ is_interrupted' = TRUE
    /\ UNCHANGED <<contracts, progress, pending, proxies, proxies_data, current_proxy_index, now,
                   api_keys, header_manager, header_calls, key_index, run, runs, call, tasks, _lock, results, scheduler>>

\* the process ends (at any point: it may be killed) and a new one starts:
\* the files stay, the pool state is read back from its file, the globals
\* and the cursors of the pools are new
Restart ==
    /\ run.pc # "idle" \/ is_interrupted
    /\ is_interrupted' = FALSE
    /\ run' = IdleRun
    /\ current_proxy_index' = 0
    /\ key_index' = 0
    /\ UNCHANGED <<contracts, progress, pending, proxies, proxies_data, now, api_keys, header_manager, header_calls, runs, call, tasks, _lock, results, scheduler>>

Init ==
    /\ contracts = <<>>
    /\ progress = EmptyDict
    /\ pending = EmptyDict
    /\ proxies \in {FreshPool, WornPool}
    /\ proxies_data = _save_proxy_data(proxies)
    /\ current_proxy_index = 0
    /\ now = 0
    /\ api_keys \in {_load_api_keys(file) : file \in KeyFiles}
    /\ header_manager = NoHeaderManager
    /\ header_calls = NoHeaderCalls
    /\ key_index = 0
    /\ is_interrupted = FALSE
    /\ run = IdleRun
    /\ runs = 0
    /\ call = NoCall
    /\ tasks = NoTasks
    /\ _lock = None
    /\ results = <<>>
    /\ scheduler = NoScheduler

Next ==
    \/ GetHoldersBegin
    \/ GetHoldersRequest
    \/ GetHoldersResponse
    \/ GetHoldersSaveHolders
    \/ AddPending
    \/ GetHoldersAfterLoop
    \/ GetHoldersFinalHolders
    \/ Interrupt
    \/ Restart

Spec == Init /\ [][Next]_vars

(***************************************************************************)
(* The engine of services/token_holders_service.py.  Its ParsingStatus,    *)
(* TokenHolder, ProcessedContract and ParsingProgress are those of         *)
(* app/services/contract/models.py; what it reads from DBManager carries   *)
(* db_manager.ParsingStatus.  Its loop is `while True`.                    *)
(***************************************************************************)
\* lines 108-125
ServiceStartPage(prog) ==
    IF prog # None /\ TheValue(prog).status = MD("in_progress")
    THEN TheValue(prog).current_page
    ELSE 1

ServiceIsCompleted(pc) == pc # None /\ TheValue(pc).status = MD("completed")

ServiceBeginWith(c) ==
    /\ NoCrawl
    /\ runs < MaxRuns
    /\ runs' = runs + 1
    /\ LET processed_contract == get_processed_contract(contracts, c.address)
           prog == get_parsing_progress(progress, c.address)
       IN  IF ServiceIsCompleted(processed_contract)
           THEN run' = [IdleRun EXCEPT !.pc = "done", !.contract = c,
                                       !.result = <<>>, !.at_start = Snapshot]
           ELSE run' = [IdleRun EXCEPT
                           !.pc = "loop", !.contract = c,
                           !.existing_holders =
                               IF processed_contract # None
                               THEN TheValue(processed_contract).holders ELSE <<>>,
                           !.start_page = ServiceStartPage(prog),
                           !.current_page = ServiceStartPage(prog),
                           !.at_start = Snapshot]
    /\ UNCHANGED <<contracts, progress, pending, proxies, proxies_data, current_proxy_index, now,
                   api_keys, header_manager, header_calls, key_index, is_interrupted, call, tasks, _lock, results, scheduler>>

ServiceBegin == \E i \in 1..Len(ContractList) : ServiceBeginWith(ContractList[i])

\* lines 129-134
ServiceRequest ==
    /\ run.pc = "loop"
    /\ Len(run.requests) < MaxRequests
    /\ ProxiedRequest
    /\ UNCHANGED <<contracts, progress, pending, now, api_keys, header_manager, header_calls, is_interrupted,
                   runs, call, tasks, _lock, results, scheduler>>

\* lines 136-156, _save_progress
ServiceResponse ==
    /\ run.pc = "got_response"
    /\ IF Failed(run.response)
       THEN /\ progress' = save_parsing_progress(progress,
                              ParsingProgress(run.contract.address, run.current_page, None,
                                              MD("failed"), Some(ErrorMessage(run.response))))
            /\ run' = [run EXCEPT !.pc = "after_loop"]
       ELSE /\ progress' = save_parsing_progress(progress,
                              ParsingProgress(run.contract.address, run.current_page, None,
                                              MD("in_progress"), None))
            /\ run' = [run EXCEPT !.pc = "save_holders",
                                  !.all_holders = @ \o run.response.data]
    /\ UNCHANGED <<contracts, pending, proxies, proxies_data, current_proxy_index, now, api_keys, header_manager, header_calls,
                   key_index, is_interrupted, runs, call, tasks, _lock, results, scheduler>>

\* _save_holders, lines 202-221
ServiceNewTokenHolders(new_holders, existing_holders) ==
    LET existing_addresses == {existing_holders[i].address : i \in 1..Len(existing_holders)}
        fresh == SelectSeq(new_holders, LAMBDA a : a \notin existing_addresses)
    IN  [i \in 1..Len(fresh) |-> MDHolder(fresh[i], "0")]

ServiceContract(c, new_holders, existing_holders, status) ==
    LET all_token_holders ==
            existing_holders \o ServiceNewTokenHolders(new_holders, existing_holders)
    IN  ProcessedContract(c.address, c.chain, Len(all_token_holders),
                          all_token_holders, status)

\* _save_holders up to save_processed_contract (line 223); add_pending_holders
\* (lines 224-225) is the next step, then position `next`
ServiceSaveHoldersTo(status, next) ==
    LET pc == ServiceContract(run.contract, run.all_holders, run.existing_holders, status)
        new_token_holders == ServiceNewTokenHolders(run.all_holders, run.existing_holders)
    IN  /\ contracts' = SavedContracts(contracts, pc)
        /\ progress' = ProgressAfterSave(progress, pc)
        /\ run' = [run EXCEPT
                      !.pc = IF new_token_holders # <<>> THEN "add_pending" ELSE next,
                      !.cont = next,
                      !.to_pending = new_token_holders,
                      !.result = run.all_holders,
                      !.current_page =
                          IF next = "loop" THEN NextPage(run.response, @) ELSE @]

\* lines 158-168
ServiceSaveHolders ==
    /\ run.pc = "save_holders"
    /\ ServiceSaveHoldersTo(MD("in_progress"),
                            IF has_next_page(run.response) THEN "loop" ELSE "after_loop")
    /\ UNCHANGED <<pending, proxies, proxies_data, current_proxy_index, now, api_keys, header_manager, header_calls, key_index,
                   is_interrupted, runs, call, tasks, _lock, results, scheduler>>

\* lines 170-173
ServiceAfterLoop ==
    /\ run.pc = "after_loop"
    /\ IF run.all_holders # <<>> \/ run.existing_holders # <<>>
       THEN ServiceSaveHoldersTo(MD("completed"), "done")
       ELSE SkipHolders("done")
    /\ UNCHANGED <<pending, proxies, proxies_data, current_proxy_index, now, api_keys, header_manager, header_calls, key_index,
                   is_interrupted, runs, call, tasks, _lock, results, scheduler>>

ServiceNext ==
    \/ ServiceBegin
    \/ ServiceRequest
    \/ ServiceResponse
    \/ ServiceSaveHolders
    \/ AddPending
    \/ ServiceAfterLoop
    \/ Restart

ServiceSpec == Init /\ [][ServiceNext]_vars

(***************************************************************************)
(* PoolSpec: a ProxyManager on its own.  Its pool is loaded from the proxy *)
(* file and the state file of earlier runs; the calls are those with_proxy *)
(* makes: a selection, then the feedback for the proxy it returned.  The   *)
(* clock (time.time()) advances by half a cooldown.                        *)
(***************************************************************************)
\* the states an entry of the state file is tried in: never used, one failure
\* short of MAX_FAILS, one request short of the quota, in cooldown since time 0
PoolStatusInputs ==
    {ProxyStatus(TRUE, 0, None, 0),
     ProxyStatus(TRUE, MAX_FAILS - 1, None, 0),
     ProxyStatus(TRUE, 0, None, MAX_REQUESTS_PER_PROXY - 1),
     ProxyStatus(TRUE, 0, Some(COOLDOWN_TIME), 0)}

\* pools over the first n lines of the proxy file, the empty pool included
PoolInputs ==
    UNION {[Range(SubSeq(ProxyFile, 1, n)) -> PoolStatusInputs] : n \in 0..Len(ProxyFile)}

\* the last call on the pool: the proxy a selection returned, the pool, index
\* and time it found, and the proxies returned by the selections so far that
\* found every entry eligible
NoPoolCall ==
    [op |-> "none", n |-> 0, url |-> None, before |-> EmptyDict, index_before |-> 0,
     at |-> 0, streak |-> <<>>]

\* is_working and not in cooldown and below the quota
Usable(st, t) ==
    /\ st.is_working
    /\ st.cooldown_until = None \/ t >= TheValue(st.cooldown_until)
    /\ st.requests_count < MAX_REQUESTS_PER_PROXY

PoolInit ==
    /\ contracts = <<>>
    /\ progress = EmptyDict
    /\ pending = EmptyDict
    /\ proxies \in PoolInputs
    /\ proxies_data = _save_proxy_data(proxies)
    /\ current_proxy_index = 0
    /\ now = 0
    /\ api_keys = LoadedKeys
    /\ header_manager = NoHeaderManager
    /\ header_calls = NoHeaderCalls
    /\ key_index = 0
    /\ is_interrupted = FALSE
    /\ run = IdleRun
    /\ runs = 0
    /\ call = NoPoolCall
    /\ tasks = NoTasks
    /\ _lock = None
    /\ results = <<>>
    /\ scheduler = NoScheduler

PoolUnchanged ==
    UNCHANGED <<contracts, progress, pending, api_keys, header_manager, header_calls, key_index, is_interrupted,
                run, runs, tasks, _lock, results, scheduler>>

\* ProxyManager._get_next_available_proxy()
PoolSelect ==
    /\ call.n < MaxPoolCalls
    /\ LET sel == _get_next_available_proxy(proxies, current_proxy_index, now) IN
       /\ proxies' = sel.proxies
       /\ proxies_data' = IF sel.proxies = proxies THEN proxies_data
                           ELSE _save_proxy_data(sel.proxies)
       /\ current_proxy_index' = sel.index
       /\ call' = [op |-> "select", n |-> call.n + 1, url |-> sel.url,
                   before |-> proxies, index_before |-> current_proxy_index,
                   at |-> now,
                   streak |-> IF sel.url # None
                                  /\ \A u \in DOMAIN proxies : Usable(proxies[u], now)
                              THEN Append(call.streak, TheValue(sel.url))
                              ELSE <<>>]
    /\ UNCHANGED now
    /\ PoolUnchanged

\* ProxyManager._handle_proxy_error(proxy_url), for the proxy just selected
PoolError ==
    /\ call.op = "select"
    /\ call.url # None
    /\ proxies' = _handle_proxy_error(proxies, TheValue(call.url), now)
    /\ proxies_data' = _save_proxy_data(proxies')
    /\ call' = [call EXCEPT !.op = "error"]
    /\ UNCHANGED <<current_proxy_index, now>>
    /\ PoolUnchanged

\* ProxyManager._handle_proxy_success(proxy_url), for the proxy just selected
PoolSuccess ==
    /\ call.op = "select"
    /\ call.url # None
    /\ proxies' = _handle_proxy_success(proxies, TheValue(call.url))
    /\ proxies_data' = _save_proxy_data(proxies')
    /\ call' = [call EXCEPT !.op = "success"]
    /\ UNCHANGED <<current_proxy_index, now>>
    /\ PoolUnchanged

\* time passes between two calls
Tick ==
    /\ call.op = "select" => call.url = None
    /\ now < MaxTicks * (COOLDOWN_TIME \div 2)
    /\ now' = now + (COOLDOWN_TIME \div 2)
    /\ call' = [call EXCEPT !.op = "tick"]
    /\ UNCHANGED <<proxies, proxies_data, current_proxy_index>>
    /\ PoolUnchanged

\* ProxyManager(): a new instance over the same config/proxies.txt and the
\* state file the old instance left
PoolRestart ==
    /\ call.n < MaxPoolCalls
    /\ proxies' = _load_proxy_data(_load_proxies(ProxyKeys(proxies)), proxies_data)
    /\ proxies_data' = IF proxies_data = None THEN _save_proxy_data(proxies')
                       ELSE proxies_data
    /\ current_proxy_index' = 0
    /\ call' = [call EXCEPT !.op = "restart", !.n = @ + 1, !.url = None,
                            !.before = proxies, !.index_before = current_proxy_index,
                            !.at = now, !.streak = <<>>]
    /\ UNCHANGED now
    /\ PoolUnchanged

PoolNext == PoolSelect \/ PoolError \/ PoolSuccess \/ Tick \/ PoolRestart

PoolSpec == PoolInit /\ [][PoolNext]_vars

(***************************************************************************)
(* WorkerSpec: ThreadManager.process_tasks running process_contract on two *)
(* contracts.  Each DBManager writer is taken apart into its reads and its *)
(* write of the file, so that reads and writes of two threads can          *)
(* interleave wherever the code lets them.                                 *)
(***************************************************************************)
WorkerContracts ==
    <<[address |-> "0xABC", chain |-> "ethereum"],
      [address |-> "0xDEF", chain |-> "ethereum"]>>

Workers == 1..Len(WorkerContracts)

\* the DBManager writers _get_holders_async calls for a contract never seen
\* before whose only page holds `hs`
StoreWrites(c, hs) ==
    LET spp == [op |-> "save_parsing_progress",
                arg |-> ParsingProgress(c.address, 1, None, DB("in_progress"), None)]
        spc(status) == [op |-> "save_processed_contract",
                        arg |-> IntermediateContract(c, hs, <<>>, status)]
        aph == [op |-> "add_pending_holders", arg |-> NewTokenHolders(hs, <<>>)]
    IN  IF hs = <<>> THEN <<spp>>
        ELSE <<spp, spc(DB("in_progress")), aph, spc(DB("completed")), aph>>

\* the "pending" dict add_pending_holders writes, from the dict it loaded
\* (line 261) and the holders get_pending_holders returned (line 265)
AddedPendingTo(data, existing_holders, a, holders) ==
    LET existing_addresses == {existing_holders[i].address : i \in 1..Len(existing_holders)}
        new_holders == SelectSeq(holders, LAMBDA h : h.address \notin existing_addresses)
    IN  DictPut(data, a, HoldersToDicts(existing_holders \o new_holders))

WorkerInit ==
    /\ contracts = <<>>
    /\ progress = EmptyDict
    /\ pending = EmptyDict
    /\ proxies \in {FreshPool, WornPool}
    /\ proxies_data = _save_proxy_data(proxies)
    /\ current_proxy_index = 0
    /\ now = 0
    /\ api_keys = LoadedKeys
    /\ header_manager = NoHeaderManager
    /\ header_calls = NoHeaderCalls
    /\ key_index = 0
    /\ is_interrupted = FALSE
    /\ run = IdleRun
    /\ runs = 0
    /\ call = NoCall
    /\ tasks = [w \in Workers |-> [NoTask EXCEPT !.pc = "submitted"]]
    /\ _lock = None
    /\ results = <<>>
    /\ scheduler = [NoScheduler EXCEPT !.pc = "as_completed"]

WorkerUnchanged ==
    UNCHANGED <<now, api_keys, header_manager, header_calls, key_index, is_interrupted, run, runs, call>>

\* _safe_worker without `with self._lock`
_safe_worker_Unlocked(w) ==
    /\ tasks[w].pc = "submitted"
    /\ tasks' = [tasks EXCEPT ![w].pc = "started"]
    /\ _lock' = Some(w)
    /\ UNCHANGED <<contracts, progress, pending, proxies, proxies_data, current_proxy_index,
                   results, scheduler>>
    /\ WorkerUnchanged

\* ThreadManager._safe_worker: `with self._lock:` entered and
\* worker_func(task) started
_safe_worker(w) ==
    /\ _lock = None
    /\ tasks[w].pc = "submitted"
    /\ tasks' = [tasks EXCEPT ![w].pc = "started"]
    /\ _lock' = Some(w)
    /\ UNCHANGED <<contracts, progress, pending, proxies, proxies_data, current_proxy_index,
                   results, scheduler>>
    /\ WorkerUnchanged

\* the lock released while the request is awaited
WorkerRequest_ReleasesLock(w) ==
    /\ tasks[w].pc = "started"
    /\ LET sel == _get_next_available_proxy(proxies, current_proxy_index, now) IN
       /\ current_proxy_index' = sel.index
       /\ IF sel.url = None
          THEN /\ proxies' = sel.proxies
               /\ proxies_data' = IF sel.proxies = proxies THEN proxies_data
                                   ELSE _save_proxy_data(sel.proxies)
               /\ tasks' = [tasks EXCEPT ![w].pc = "raised", ![w].semaphore = Some(w)]
          ELSE /\ proxies' = _handle_proxy_success(sel.proxies, TheValue(sel.url))
               /\ proxies_data' = _save_proxy_data(proxies')
               /\ tasks' = [tasks EXCEPT ![w].pc = "in_flight", ![w].semaphore = Some(w),
                                         ![w].in_flight = 1]
    /\ _lock' = None
    /\ UNCHANGED <<contracts, progress, pending, results, scheduler>>
    /\ WorkerUnchanged

\* _get_holders_async lines 184-190: the crawl creates its semaphore, enters
\* it and sends the request for its page through with_proxy, which raises
\* when the pool has no proxy; the exception leaves `with self._lock`
WorkerRequest(w) ==
    /\ tasks[w].pc = "started"
    /\ LET sel == _get_next_available_proxy(proxies, current_proxy_index, now) IN
       /\ current_proxy_index' = sel.index
       /\ IF sel.url = None
          THEN /\ proxies' = sel.proxies
               /\ proxies_data' = IF sel.proxies = proxies THEN proxies_data
                                   ELSE _save_proxy_data(sel.proxies)
               /\ tasks' = [tasks EXCEPT ![w].pc = "raised", ![w].semaphore = Some(w)]
               /\ _lock' = None
          ELSE /\ proxies' = _handle_proxy_success(sel.proxies, TheValue(sel.url))
               /\ proxies_data' = _save_proxy_data(proxies')
               /\ tasks' = [tasks EXCEPT ![w].pc = "in_flight", ![w].semaphore = Some(w),
                                         ![w].in_flight = 1]
               /\ UNCHANGED _lock
    /\ UNCHANGED <<contracts, progress, pending, results, scheduler>>
    /\ WorkerUnchanged

\* the upstream answers with the only page of the contract's holders and the
\* semaphore is left
WorkerResponse(w) ==
    /\ tasks[w].pc = "in_flight"
    /\ \E hs \in PageData :
          tasks' = [tasks EXCEPT ![w].pc = "call", ![w].holders = hs,
                                 ![w].in_flight = 0,
                                 ![w].todo = StoreWrites(WorkerContracts[w], hs)]
    /\ UNCHANGED <<contracts, progress, pending, proxies, proxies_data, current_proxy_index, _lock,
                   results, scheduler>>
    /\ WorkerUnchanged

\* the writer's _load_json of its file
WriterLoad(w) ==
    /\ tasks[w].pc = "call"
    /\ tasks[w].at <= Len(tasks[w].todo)
    /\ LET op == tasks[w].todo[tasks[w].at].op IN
       tasks' = [tasks EXCEPT
                    ![w].pc = IF op = "add_pending_holders" THEN "existing" ELSE "save",
                    ![w].data =
                        CASE op = "save_parsing_progress" -> [@ EXCEPT !.progress = progress]
                          [] op = "save_processed_contract" -> [@ EXCEPT !.contracts = contracts]
                          [] op = "add_pending_holders" -> [@ EXCEPT !.pending = pending]]
    /\ UNCHANGED <<contracts, progress, pending, proxies, proxies_data, current_proxy_index, _lock,
                   results, scheduler>>
    /\ WorkerUnchanged

\* add_pending_holders line 265: self.get_pending_holders(contract_address)
PendingExisting(w) ==
    /\ tasks[w].pc = "existing"
    /\ tasks' = [tasks EXCEPT
                    ![w].pc = "save",
                    ![w].existing = get_pending_holders(pending, WorkerContracts[w].address)]
    /\ UNCHANGED <<contracts, progress, pending, proxies, proxies_data, current_proxy_index, _lock,
                   results, scheduler>>
    /\ WorkerUnchanged

\* the writer's _save_json of the data it loaded and changed
WriterSave(w) ==
    /\ tasks[w].pc = "save"
    /\ LET op == tasks[w].todo[tasks[w].at].op
           arg == tasks[w].todo[tasks[w].at].arg
           completed == op = "save_processed_contract" /\ arg.status = DB("completed")
       IN  /\ progress' = IF op = "save_parsing_progress"
                          THEN save_parsing_progress(tasks[w].data.progress, arg) ELSE progress
           /\ contracts' = IF op = "save_processed_contract"
                           THEN SavedContracts(tasks[w].data.contracts, arg) ELSE contracts
           /\ pending' = IF op = "add_pending_holders"
                         THEN AddedPendingTo(tasks[w].data.pending, tasks[w].existing,
                                             WorkerContracts[w].address, arg)
                         ELSE pending
           /\ tasks' = [tasks EXCEPT
                           ![w].pc = IF completed THEN "remove" ELSE "call",
                           ![w].at = IF completed THEN @ ELSE @ + 1]
    /\ UNCHANGED <<proxies, proxies_data, current_proxy_index, _lock, results, scheduler>>
    /\ WorkerUnchanged

\* remove_parsing_progress, called by save_processed_contract: _load_json
RemoveLoad(w) ==
    /\ tasks[w].pc = "remove"
    /\ tasks' = [tasks EXCEPT ![w].pc = "remove_save", ![w].data.progress = progress]
    /\ UNCHANGED <<contracts, progress, pending, proxies, proxies_data, current_proxy_index, _lock,
                   results, scheduler>>
    /\ WorkerUnchanged

\* remove_parsing_progress: the record deleted and the file saved, if the
\* loaded data has the record
RemoveSave(w) ==
    /\ tasks[w].pc = "remove_save"
    /\ progress' = IF WorkerContracts[w].address \in DOMAIN tasks[w].data.progress
                   THEN remove_parsing_progress(tasks[w].data.progress,
                                                WorkerContracts[w].address)
                   ELSE progress
    /\ tasks' = [tasks EXCEPT ![w].pc = "call", ![w].at = @ + 1]
    /\ UNCHANGED <<contracts, pending, proxies, proxies_data, current_proxy_index, _lock,
                   results, scheduler>>
    /\ WorkerUnchanged

\* worker_func returns all_holders and `with self._lock` is left
WorkerReturn(w) ==
    /\ tasks[w].pc = "call"
    /\ tasks[w].at > Len(tasks[w].todo)
    /\ tasks' = [tasks EXCEPT ![w].pc = "done"]
    /\ _lock' = None
    /\ UNCHANGED <<contracts, progress, pending, proxies, proxies_data, current_proxy_index,
                   results, scheduler>>
    /\ WorkerUnchanged

\* process_tasks without the try/except around future.result(): the
\* exception of a worker leaves process_tasks
FutureResult_Uncaught(w) ==
    /\ scheduler.pc = "as_completed"
    /\ w \notin Range(scheduler.yielded)
    /\ tasks[w].pc \in {"done", "raised"}
    /\ IF tasks[w].pc = "done"
       THEN /\ results' = Append(results, tasks[w].holders)
            /\ scheduler' = [scheduler EXCEPT !.yielded = Append(@, w),
                                              !.appended = Append(@, w)]
       ELSE /\ results' = results
            /\ scheduler' = [scheduler EXCEPT !.yielded = Append(@, w),
                                              !.pc = "raised"]
    /\ UNCHANGED <<contracts, progress, pending, proxies, proxies_data, current_proxy_index,
                   tasks, _lock>>
    /\ WorkerUnchanged

\* process_tasks lines 42-48: as_completed yields the future of a finished
\* task; its result is appended, its exception printed
FutureResult(w) ==
    /\ scheduler.pc = "as_completed"
    /\ w \notin Range(scheduler.yielded)
    /\ tasks[w].pc \in {"done", "raised"}
    /\ results' = IF tasks[w].pc = "done" THEN Append(results, tasks[w].holders)
                  ELSE results
    /\ scheduler' = [scheduler EXCEPT
                        !.yielded = Append(@, w),
                        !.appended = IF tasks[w].pc = "done" THEN Append(@, w) ELSE @]
    /\ UNCHANGED <<contracts, progress, pending, proxies, proxies_data, current_proxy_index,
                   tasks, _lock>>
    /\ WorkerUnchanged

\* process_tasks line 50: every future was yielded, `return results`
ProcessTasksReturn ==
    /\ scheduler.pc = "as_completed"
    /\ Range(scheduler.yielded) = Workers
    /\ scheduler' = [scheduler EXCEPT !.pc = "returned"]
    /\ UNCHANGED <<contracts, progress, pending, proxies, proxies_data, current_proxy_index,
                   tasks, _lock, results>>
    /\ WorkerUnchanged

WorkerNext ==
    \/ \E w \in Workers : _safe_worker(w)
    \/ \E w \in Workers : WorkerRequest(w)
    \/ \E w \in Workers : WorkerResponse(w)
    \/ \E w \in Workers : WriterLoad(w)
    \/ \E w \in Workers : PendingExisting(w)
    \/ \E w \in Workers : WriterSave(w)
    \/ \E w \in Workers : RemoveLoad(w)
    \/ \E w \in Workers : RemoveSave(w)
    \/ \E w \in Workers : WorkerReturn(w)
    \/ \E w \in Workers : FutureResult(w)
    \/ ProcessTasksReturn

WorkerSpec == WorkerInit /\ [][WorkerNext]_vars

\* every thread of the pool and the thread of process_tasks keeps running
WorkerFairSpec == WorkerSpec /\ WF_vars(WorkerNext)

(***************************************************************************)
(* HeaderSpec: the HeaderManager of the Twitter client and two coroutines  *)
(* that run the wrapper of with_header_management.  A coroutine gives up   *)
(* control only where the code awaits: at the lock, in asyncio.sleep and   *)
(* in the wrapped request.                                                 *)
(***************************************************************************)
HeaderConfig_COOLDOWN_TIME == 300
HeaderConfig_MAX_FAILS == 10
MAX_REQUESTS_PER_HEADER == 50

\* self.headers: the list imported from app.config.twitter_headers, whose
\* entries are not part of this copy of the repository; two entries
TWITTER_BASE_HEADERS == <<"header-0", "header-1">>

\* range(len(self.headers)): the keys of headers_status
HeaderIndexes == 0..(Len(TWITTER_BASE_HEADERS) - 1)

\* a datetime, and the float that mark_header_failed stores in its place
Datetime(t) == [type |-> "datetime", value |-> t]
Float(t) == [type |-> "float", value |-> t]

HeaderStatus(a, f, lu, cd, n, ls) ==
    [is_active |-> a, fail_count |-> f, last_used |-> lu, cooldown_until |-> cd,
     total_requests |-> n, last_success |-> ls]

\* v.isoformat() if v else None: a float has no isoformat (AttributeError)
IsoFormatRaises(opt) == opt # None /\ TheValue(opt).type # "datetime"

\* _save_headers_status: does building the dict raise
_save_headers_status_raises(hs) ==
    \E i \in DOMAIN hs :
        \/ IsoFormatRaises(hs[i].last_used)
        \/ IsoFormatRaises(hs[i].cooldown_until)
        \/ IsoFormatRaises(hs[i].last_success)

\* lines 95-97; datetime.now() > a float raises TypeError, reported as "raises"
HeaderEligible(st, t) ==
    IF ~st.is_active THEN "no"
    ELSE IF st.cooldown_until # None /\ TheValue(st.cooldown_until).type # "datetime"
    THEN "raises"
    ELSE IF (st.cooldown_until = None \/ t > TheValue(st.cooldown_until).value)
            /\ st.total_requests < MAX_REQUESTS_PER_HEADER
    THEN "yes"
    ELSE "no"

RECURSIVE ScanHeaders(_, _, _, _, _)
\* the while loop of get_next_header from index idx until it returns, raises
\* or is back at start_index: the outcome and the index it stands at
ScanHeaders(hs, idx, start_index, first, t) ==
    IF ~first /\ idx = start_index THEN [outcome |-> "sleep", index |-> idx]
    ELSE LET e == HeaderEligible(hs[idx], t) IN
         IF e = "yes" THEN [outcome |-> "found", index |-> idx]
         ELSE IF e = "raises" THEN [outcome |-> "raise", index |-> idx]
         ELSE ScanHeaders(hs, (idx + 1) % Len(TWITTER_BASE_HEADERS), start_index, FALSE, t)

\* the wrapper of with_header_management in a coroutine: its position, the
\* index of the header it holds, the start_index of its get_next_header and
\* the full cycles that call has scanned without finding a header (counted up
\* to MaxCycles), what the wrapper returned or raised, the wrappers it has run
NoHeaderCall ==
    [pc |-> "idle", header_index |-> 0, start_index |-> 0, cycles |-> 0,
     outcome |-> "none", n |-> 0]

Coroutines == {"a", "b"}

\* the states of an entry of .scratch/headers_data.json that the manager can
\* have written: never used, one failure short of MAX_FAILS, one request short
\* of MAX_REQUESTS_PER_HEADER, at MAX_REQUESTS_PER_HEADER
HeaderStatusInputs ==
    {HeaderStatus(TRUE, 0, None, None, 0, None),
     HeaderStatus(TRUE, HeaderConfig_MAX_FAILS - 1, Some(Datetime(0)), None, 1, None),
     HeaderStatus(TRUE, 0, Some(Datetime(0)), None, MAX_REQUESTS_PER_HEADER - 1, None),
     HeaderStatus(TRUE, 0, Some(Datetime(0)), None, MAX_REQUESTS_PER_HEADER, None)}

HeaderInit ==
    /\ contracts = <<>>
    /\ progress = EmptyDict
    /\ pending = EmptyDict
    /\ proxies = FreshPool
    /\ proxies_data = _save_proxy_data(proxies)
    /\ current_proxy_index = 0
    /\ now = 1
    /\ api_keys = LoadedKeys
    /\ key_index = 0
    /\ is_interrupted = FALSE
    /\ run = IdleRun
    /\ runs = 0
    /\ call = NoCall
    /\ tasks = NoTasks
    /\ _lock = None
    /\ results = <<>>
    /\ scheduler = NoScheduler
    /\ \E hs \in [HeaderIndexes -> HeaderStatusInputs] :
          header_manager = [headers_status |-> hs, current_header_index |-> 0,
                            _lock |-> None]
    /\ header_calls = [c \in Coroutines |-> NoHeaderCall]

HeaderUnchanged ==
    UNCHANGED <<contracts, progress, pending, proxies, proxies_data, current_proxy_index,
                now, api_keys, key_index, is_interrupted, run, runs, call, tasks, _lock,
                results, scheduler>>

\* wrapper: `header = await self.header_manager.get_next_header()`; the
\* coroutine stands at `async with self._lock`
HeaderWrapperCall(c) ==
    /\ header_calls[c].pc \in {"idle", "returned", "raised"}
    /\ header_calls[c].n < MaxHeaderCalls
    /\ header_calls' = [header_calls EXCEPT ![c] =
                           [NoHeaderCall EXCEPT !.pc = "get_next_header", !.n = header_calls[c].n + 1]]
    /\ UNCHANGED header_manager
    /\ HeaderUnchanged

\* a run of the while loop of get_next_header under the lock, from index idx
\* to the return of the header, an exception or asyncio.sleep(1)
HeaderScanFrom(c, start_index, first) ==
    LET hs == header_manager.headers_status
        r == ScanHeaders(hs, header_manager.current_header_index, start_index, first, now)
    IN  IF r.outcome = "sleep"
        THEN /\ header_manager' = [header_manager EXCEPT !.current_header_index = r.index,
                                                         !._lock = Some(c)]
             /\ header_calls' = [header_calls EXCEPT
                                    ![c].pc = "sleep",
                                    ![c].start_index = start_index,
                                    ![c].cycles = IF @ < MaxCycles THEN @ + 1 ELSE @]
        ELSE IF r.outcome = "raise"
        THEN /\ header_manager' = [header_manager EXCEPT !.current_header_index = r.index,
                                                         !._lock = None]
             /\ header_calls' = [header_calls EXCEPT ![c].pc = "raised",
                                                     ![c].outcome = "TypeError"]
        ELSE LET used == [hs EXCEPT ![r.index].last_used = Some(Datetime(now)),
                                    ![r.index].total_requests = @ + 1]
             IN  IF _save_headers_status_raises(used)
                 THEN /\ header_manager' = [header_manager EXCEPT
                                               !.headers_status = used,
                                               !.current_header_index = r.index,
                                               !._lock = None]
                      /\ header_calls' = [header_calls EXCEPT
                                             ![c].pc = "raised",
                                             ![c].outcome = "AttributeError"]
                 ELSE /\ header_manager' = [header_manager EXCEPT
                                               !.headers_status = used,
                                               !.current_header_index =
                                                   (r.index + 1) % Len(TWITTER_BASE_HEADERS),
                                               !._lock = None]
                      /\ header_calls' = [header_calls EXCEPT
                                             ![c].pc = "request",
                                             ![c].header_index = r.index]

\* get_next_header, lines 89-117: the lock is acquired and the loop runs
get_next_header(c) ==
    /\ header_calls[c].pc = "get_next_header"
    /\ header_manager._lock = None
    /\ HeaderScanFrom(c, header_manager.current_header_index, TRUE)
    /\ HeaderUnchanged

\* line 117: asyncio.sleep(1) is over, the loop goes on, the lock still held
HeaderSleepOver(c) ==
    /\ header_calls[c].pc = "sleep"
    /\ HeaderScanFrom(c, header_calls[c].start_index, TRUE)
    /\ HeaderUnchanged

\* wrapper, lines 147-153: the wrapped request returns or raises; the
\* coroutine stands at the lock of mark_header_success or mark_header_failed
HeaderRequest(c) ==
    /\ header_calls[c].pc = "request"
    /\ \E ok \in BOOLEAN :
          header_calls' = [header_calls EXCEPT
                              ![c].pc = IF ok THEN "mark_header_success"
                                        ELSE "mark_header_failed"]
    /\ UNCHANGED header_manager
    /\ HeaderUnchanged

\* mark_header_failed, lines 119-129, then `raise e` of the wrapper
mark_header_failed(c) ==
    /\ header_calls[c].pc = "mark_header_failed"
    /\ header_manager._lock = None
    /\ LET i == header_calls[c].header_index
           hs == header_manager.headers_status
           failed == [hs EXCEPT ![i].fail_count = @ + 1]
           marked == IF failed[i].fail_count >= HeaderConfig_MAX_FAILS
                     THEN [failed EXCEPT
                              ![i].is_active = FALSE,
                              ![i].cooldown_until = Some(Float(now + HeaderConfig_COOLDOWN_TIME))]
                     ELSE failed
       IN  /\ header_manager' = [header_manager EXCEPT !.headers_status = marked]
           /\ header_calls' = [header_calls EXCEPT
                                  ![c].pc = "raised",
                                  ![c].outcome = IF _save_headers_status_raises(marked)
                                                 THEN "AttributeError" ELSE "request failed"]
    /\ HeaderUnchanged

\* mark_header_success, lines 131-137, then `return result` of the wrapper
mark_header_success(c) ==
    /\ header_calls[c].pc = "mark_header_success"
    /\ header_manager._lock = None
    /\ LET i == header_calls[c].header_index
           hs == header_manager.headers_status
           marked == [hs EXCEPT ![i].fail_count = 0,
                                ![i].last_success = Some(Datetime(now))]
       IN  /\ header_manager' = [header_manager EXCEPT !.headers_status = marked]
           /\ header_calls' = [header_calls EXCEPT
                                  ![c].pc = IF _save_headers_status_raises(marked)
                                            THEN "raised" ELSE "returned",
                                  ![c].outcome = IF _save_headers_status_raises(marked)
                                                 THEN "AttributeError" ELSE "result"]
    /\ HeaderUnchanged

HeaderNext ==
    \E c \in Coroutines :
        \/ HeaderWrapperCall(c)
        \/ get_next_header(c)
        \/ HeaderSleepOver(c)
        \/ HeaderRequest(c)
        \/ mark_header_failed(c)
        \/ mark_header_success(c)

HeaderSpec == HeaderInit /\ [][HeaderNext]_vars


(***************************************************************************)
(* KeySpec: an ApiKeyManager on its own, loaded from a key file; its caller *)
(* takes a key for every request, whatever became of the request before.   *)
(***************************************************************************)
\* the key files of the crawls and one with three keys
KeyFileInputs == KeyFiles \cup {Some(<<"key-1", "key-2", "key-3">>)}

\* the calls of get_next_key so far: the key each returned and whether the
\* request it was used for succeeded
NoKeyCall == [op |-> "none", n |-> 0, returned |-> <<>>]

KeyInit ==
    /\ contracts = <<>>
    /\ progress = EmptyDict
    /\ pending = EmptyDict
    /\ proxies = FreshPool
    /\ proxies_data = _save_proxy_data(proxies)
    /\ current_proxy_index = 0
    /\ now = 0
    /\ api_keys \in {_load_api_keys(file) : file \in KeyFileInputs}
    /\ header_manager = NoHeaderManager
    /\ header_calls = NoHeaderCalls
    /\ key_index = 0
    /\ is_interrupted = FALSE
    /\ run = IdleRun
    /\ runs = 0
    /\ call = NoKeyCall
    /\ tasks = NoTasks
    /\ _lock = None
    /\ results = <<>>
    /\ scheduler = NoScheduler

\* api_key = self.api_key_manager.get_next_key(), and the request made with it
GetNextKeyCall ==
    /\ call.n < MaxKeyCalls
    /\ LET k == get_next_key(api_keys, key_index) IN
       /\ key_index' = k.pos
       /\ \E ok \in BOOLEAN :
             call' = [op |-> "get_next_key", n |-> call.n + 1,
                      returned |-> Append(call.returned, [key |-> k.key, ok |-> ok])]
    /\ UNCHANGED <<contracts, progress, pending, proxies, proxies_data, current_proxy_index,
                   now, api_keys, header_manager, header_calls, is_interrupted, run, runs,
                   tasks, _lock, results, scheduler>>

KeyNext == GetNextKeyCall

KeySpec == KeyInit /\ [][KeyNext]_vars

(***************************************************************************)
(* PendingSpec: DBManager.add_pending_holders called directly, one call at *)
(* a time, on a pending file that starts empty.                            *)
(***************************************************************************)
\* the last call: its arguments and the "pending" dict it found
NoPendingCall ==
    [op |-> "none", n |-> 0, address |-> "", holders |-> <<>>, before |-> EmptyDict]

PendingInit ==
    /\ contracts = <<>>
    /\ progress = EmptyDict
    /\ pending = EmptyDict
    /\ proxies = FreshPool
    /\ proxies_data = _save_proxy_data(proxies)
    /\ current_proxy_index = 0
    /\ now = 0
    /\ api_keys = LoadedKeys
    /\ header_manager = NoHeaderManager
    /\ header_calls = NoHeaderCalls
    /\ key_index = 0
    /\ is_interrupted = FALSE
    /\ run = IdleRun
    /\ runs = 0
    /\ call = NoPendingCall
    /\ tasks = NoTasks
    /\ _lock = None
    /\ results = <<>>
    /\ scheduler = NoScheduler

\* DBManager.add_pending_holders(contract_address, holders)
AddPendingHoldersCall ==
    \E a \in StoreAddrs, hs \in HolderListInputs :
        /\ call.n < MaxCalls
        /\ pending' = AddedPending(pending, a, hs)
        /\ call' = [op |-> "add_pending_holders", n |-> call.n + 1, address |-> a,
                    holders |-> hs, before |-> pending]
        /\ UNCHANGED <<contracts, progress>>
        /\ EngineUnchanged

PendingNext == AddPendingHoldersCall

PendingSpec == PendingInit /\ [][PendingNext]_vars

(***************************************************************************)
(* CodecSpec: to_dict and from_dict of db_manager's ParsingProgress and    *)
(* ProcessedContract, on objects of these classes.                         *)
(***************************************************************************)
CodecStatuses == {DB(v) : v \in DBStatusValues}

CodecProgress ==
    {ParsingProgressAt(a, page, total, at, st, msg) :
        a \in StoreAddrs, page \in {1, MaxPage}, total \in {None, Some(MaxPage)},
        at \in Instants, st \in CodecStatuses, msg \in {None, Some(""), Some("HTTP 500")}}

CodecHolderLists ==
    {<<>>,
     <<DBHolder("0x1", "0", FALSE, None)>>,
     <<DBHolder("0x1", "7", TRUE, Some(1)), DBHolder("0x2", "", FALSE, Some(2))>>,
     <<DBHolder("0x2", "0", FALSE, None), DBHolder("0x2", "0", FALSE, None)>>}

CodecContracts ==
    {ProcessedContractAt(a, ch, at, n, hs, st) :
        a \in StoreAddrs, ch \in {"ethereum", ""}, at \in Instants, n \in {0, 2},
        hs \in CodecHolderLists, st \in CodecStatuses}

NoRoundTrip == [op |-> "none", progress |-> None, progress_back |-> None,
                contract |-> None, contract_back |-> None]

CodecInit ==
    /\ contracts = <<>>
    /\ progress = EmptyDict
    /\ pending = EmptyDict
    /\ proxies = FreshPool
    /\ proxies_data = _save_proxy_data(proxies)
    /\ current_proxy_index = 0
    /\ now = 0
    /\ api_keys = LoadedKeys
    /\ header_manager = NoHeaderManager
    /\ header_calls = NoHeaderCalls
    /\ key_index = 0
    /\ is_interrupted = FALSE
    /\ run = IdleRun
    /\ runs = 0
    /\ call = NoRoundTrip
    /\ tasks = NoTasks
    /\ _lock = None
    /\ results = <<>>
    /\ scheduler = NoScheduler

CodecUnchanged ==
    UNCHANGED <<contracts, progress, pending, proxies, proxies_data, current_proxy_index, now,
                api_keys, header_manager, header_calls, key_index, is_interrupted, run, runs, tasks, _lock,
                results, scheduler>>

\* ParsingProgress.from_dict(p.to_dict())
RoundTripProgress ==
    \E p \in CodecProgress :
        /\ call' = [NoRoundTrip EXCEPT
                       !.op = "ParsingProgress",
                       !.progress = Some(p),
                       !.progress_back =
                           Some(ParsingProgress_from_dict(ParsingProgress_to_dict(p)))]
        /\ CodecUnchanged

\* ProcessedContract.from_dict(c.to_dict())
RoundTripContract ==
    \E c \in CodecContracts :
        /\ call' = [NoRoundTrip EXCEPT
                       !.op = "ProcessedContract",
                       !.contract = Some(c),
                       !.contract_back =
                           ProcessedContract_from_dict(ProcessedContract_to_dict(c))]
        /\ CodecUnchanged

CodecNext == RoundTripProgress \/ RoundTripContract

CodecSpec == CodecInit /\ [][CodecNext]_vars

(***************************************************************************)
(* ScheduleSpec: process_all_contracts up to the call of process_tasks, on *)
(* the progress records and the contract file it finds.                    *)
(***************************************************************************)
ScheduleAddrs == <<"0xABC", "0xDEF", "0x123">>

\* the status values a progress record in the file can have; None: no record
ScheduleStatuses == {None} \cup {Some(v) : v \in DBStatusValues}

\* the "progress" dict of parsing_progress.json
ScheduleProgress ==
    {[a \in {x \in Range(ScheduleAddrs) : st[x] # None} |->
         ParsingProgress_to_dict(
             ParsingProgress(a, 1, None, DB(TheValue(st[a])), None))] :
       st \in [Range(ScheduleAddrs) -> ScheduleStatuses]}

RECURSIVE ContractFilesOfLen(_)
ContractFilesOfLen(n) ==
    IF n = 0 THEN {<<>>}
    ELSE {Append(f, [address |-> a, chain |-> "ethereum"]) :
             f \in ContractFilesOfLen(n - 1), a \in Range(ScheduleAddrs)}

\* ContractLoader.load_contracts: the lines of contracts.txt, a contract may
\* be listed twice
ContractFiles == UNION {ContractFilesOfLen(n) : n \in 0..MaxContracts}

\* the loop without the test: every contract appended
RECURSIVE ScheduledContracts_FileOrder(_, _, _)
ScheduledContracts_FileOrder(all_contracts, unfinished_contracts, acc) ==
    IF all_contracts = <<>> THEN acc
    ELSE ScheduledContracts_FileOrder(Tail(all_contracts), unfinished_contracts,
                                      Append(acc, Head(all_contracts)))

\* lines 306-311: the list `contracts` (here acc) after the loop over what is left of
\* all_contracts
RECURSIVE ScheduledContracts(_, _, _)
ScheduledContracts(all_contracts, unfinished_contracts, acc) ==
    IF all_contracts = <<>> THEN acc
    ELSE LET contract == Head(all_contracts) IN
         ScheduledContracts(Tail(all_contracts), unfinished_contracts,
                            IF contract.address \in unfinished_contracts
                            THEN <<contract>> \o acc
                            ELSE Append(acc, contract))

ScheduleInit ==
    /\ contracts = <<>>
    /\ progress \in ScheduleProgress
    /\ pending = EmptyDict
    /\ proxies = FreshPool
    /\ proxies_data = _save_proxy_data(proxies)
    /\ current_proxy_index = 0
    /\ now = 0
    /\ api_keys = LoadedKeys
    /\ header_manager = NoHeaderManager
    /\ header_calls = NoHeaderCalls
    /\ key_index = 0
    /\ is_interrupted = FALSE
    /\ run = IdleRun
    /\ runs = 0
    /\ call = NoCall
    /\ tasks = NoTasks
    /\ _lock = None
    /\ results = <<>>
    /\ scheduler = NoScheduler

\* process_all_contracts lines 299-313: the contracts scheduled and a task
\* made of each
ProcessAllContracts ==
    \E all_contracts \in ContractFiles :
        LET unfinished_contracts == get_unfinished_contracts(progress)
            scheduled == ScheduledContracts(all_contracts, unfinished_contracts, <<>>)
        IN  /\ scheduler.pc = "none"
            /\ scheduler' = [scheduler EXCEPT !.pc = "as_completed",
                                              !.all_contracts = all_contracts,
                                              !.contracts = scheduled]
            /\ tasks' = [i \in 1..Len(scheduled) |-> [NoTask EXCEPT !.pc = "submitted"]]
            /\ UNCHANGED <<contracts, progress, pending, proxies, proxies_data, current_proxy_index,
                           now, api_keys, header_manager, header_calls, key_index, is_interrupted, run, runs, call,
                           _lock, results>>

ScheduleNext == ProcessAllContracts

ScheduleSpec == ScheduleInit /\ [][ScheduleNext]_vars

(***************************************************************************)
(* Properties.  run.requests lists the pages requested upstream by the     *)
(* invocation in flight, run.fetched the address list of each response,    *)
(* run.at_start the files and pools as the invocation found them.          *)
(***************************************************************************)
NoDuplicates(s) == \A i, j \in 1..Len(s) : i # j => s[i] # s[j]

Count(a, s) == Cardinality({i \in 1..Len(s) : s[i] = a})

RECURSIVE Flatten(_)
Flatten(ss) == IF ss = <<>> THEN <<>> ELSE Head(ss) \o Flatten(Tail(ss))

PersistedAddresses(cs, a) ==
    IF IndexOfAddress(cs, a) = 0 THEN <<>>
    ELSE Addresses(cs[IndexOfAddress(cs, a)].holders)

PersistedStatus(cs, a) ==
    IF IndexOfAddress(cs, a) = 0 THEN "none" ELSE cs[IndexOfAddress(cs, a)].status

\* the invocation in flight found its contract COMPLETED
StartedOnCompleted ==
    /\ run.pc # "idle"
    /\ PersistedStatus(run.at_start.contracts, run.contract.address) = "completed"

\* C1: after any sequence of save_processed_contract calls, every persisted
\* record has no two holders with the same address and its holders_count is
\* the length of its holders list.
C1_DedupInvariant ==
    \A i \in 1..Len(contracts) :
        /\ NoDuplicates(Addresses(contracts[i].holders))
        /\ contracts[i].holders_count = Len(contracts[i].holders)

\* C2: a save_processed_contract call for an address that has a record keeps
\* every persisted holder (address, balance, processed, processed_at) in its
\* place at the head of the list, and appends only entries whose address the
\* prior record did not hold.
C2_MergeKeepsExisting ==
    [][(/\ call'.op = "save_processed_contract"
        /\ call'.n = call.n + 1
        /\ IndexOfAddress(contracts, call'.address) # 0)
       => LET i == IndexOfAddress(contracts, call'.address)
              old == HoldersFromDicts(contracts[i].holders)
              new == HoldersFromDicts(contracts'[i].holders)
          IN  /\ Len(contracts') = Len(contracts)
              /\ Len(new) >= Len(old)
              /\ SubSeq(new, 1, Len(old)) = old
              /\ \A k \in (Len(old) + 1)..Len(new) :
                    new[k].address \notin Range(Addresses(old))]_vars

\* a record whose first entry was stored with balance "7" and whose second entry
\* came from a later call that also carried the first address with balance "0"
C2_Witness ==
    /\ call.op = "save_processed_contract"
    /\ \E i \in 1..Len(contracts) :
        /\ contracts[i].address = call.address
        /\ Addresses(contracts[i].holders) = <<"0x1", "0x2">>
        /\ contracts[i].holders[1].balance = "7"
        /\ contracts[i].holders[2].balance = "7"

\* C3: once an engine invocation has returned, a contract whose persisted
\* status is COMPLETED has no progress record.
C3_CompletionTombstone ==
    Returned =>
        \A i \in 1..Len(contracts) :
            contracts[i].status = "completed" => contracts[i].address \notin DOMAIN progress

\* C4: an invocation for a contract that is persisted as COMPLETED requests no
\* page, selects no proxy and no key, writes nothing and returns the empty list.
C4_CompletedShortCircuit ==
    StartedOnCompleted =>
        /\ run.requests = <<>>
        /\ Snapshot = run.at_start
        /\ Returned
        /\ run.result = <<>>

\* C5: no step of a crawl changes a record that is persisted as COMPLETED:
\* neither its status nor its holders.
C5_CompletedIsTerminal ==
    [][\A i \in 1..Len(contracts) :
          contracts[i].status = "completed"
              => /\ Len(contracts') >= i
                 /\ contracts'[i] = contracts[i]]_vars

\* a second invocation found its contract COMPLETED and has returned
C5_Witness ==
    /\ StartedOnCompleted
    /\ Returned
    /\ runs = 2
    /\ PersistedStatus(contracts, run.contract.address) = "completed"

\* the page the start-page rule asks for, from the progress file
ExpectedStartPage(pr, a) ==
    IF a \in DOMAIN pr /\ pr[a].status = "in_progress" THEN pr[a].current_page ELSE 1

\* C6: the first page an invocation requests is the persisted current_page when
\* the progress record is IN_PROGRESS, and 1 otherwise.
C6_StartPageRule ==
    run.requests # <<>> =>
        run.requests[1] = ExpectedStartPage(run.at_start.progress, run.contract.address)

C8_FinalStatusRule ==
    (Returned /\ run.response.kind # "unset" /\ Failed(run.response)) =>
        /\ PersistedStatus(contracts, run.contract.address) # "completed"
        /\ run.contract.address \in DOMAIN progress

\* C9: when an uncancelled invocation has received a successful response without
\* next page, the contract is COMPLETED at the return and has no progress record.
C9_CompletionOnLastPage ==
    (Returned /\ ~is_interrupted /\ run.response.kind = "SuccessResponse"
        /\ ~has_next_page(run.response)) =>
        /\ PersistedStatus(contracts, run.contract.address) = "completed"
        /\ run.contract.address \notin DOMAIN progress

\* the invocation found no record and no progress, was not cancelled, every page
\* it fetched was a success, and the last one named no next page
HappyPath ==
    /\ Returned
    /\ ~is_interrupted
    /\ IndexOfAddress(run.at_start.contracts, run.contract.address) = 0
    /\ run.contract.address \notin DOMAIN run.at_start.progress
    /\ run.response.kind = "SuccessResponse"
    /\ ~has_next_page(run.response)

\* C10: a crawl from no prior state over a chain of successful pages that
\* return at least one address and none twice ends COMPLETED, with the pages'
\* addresses in the order fetched as its holders, and without progress record.
C10_HappyPathResult ==
    (HappyPath /\ Flatten(run.fetched) # <<>> /\ NoDuplicates(Flatten(run.fetched))) =>
        /\ PersistedStatus(contracts, run.contract.address) = "completed"
        /\ PersistedAddresses(contracts, run.contract.address) = Flatten(run.fetched)
        /\ run.contract.address \notin DOMAIN progress

\* two pages, one address each
C10_Witness ==
    /\ HappyPath
    /\ run.fetched = <<(<<"0x1">>), (<<"0x2">>)>>
    /\ PersistedAddresses(contracts, run.contract.address) = <<"0x1", "0x2">>

\* the page loop of the invocation in flight ended with a failed page request
LastRequestFailed ==
    /\ run.requests # <<>>
    /\ Failed(run.response)

\* C11: when the request for page k failed, the invocation returns with a
\* progress record of status FAILED, current_page k and a non-empty
\* error_message, and with no holders of page k; with k = 1 and no prior state
\* no holder is persisted.
C11_FailedPageOutcome ==
    (Returned /\ LastRequestFailed) =>
        LET a == run.contract.address
            k == run.requests[Len(run.requests)]
        IN  /\ a \in DOMAIN progress
            /\ progress[a].status = "failed"
            /\ progress[a].current_page = k
            /\ progress[a].error_message \notin {None, Some("")}
            /\ (Len(run.requests) = 1
                    /\ IndexOfAddress(run.at_start.contracts, a) = 0)
                => PersistedAddresses(contracts, a) = <<>>

\* the entries of the pool a selection found, in the order it examines them:
\* from the one after the index it found, wrapping around
ExaminationOrder ==
    LET keys == ProxyKeys(call.before)
        N == Len(keys)
    IN  [j \in 1..N |-> keys[((call.index_before + j) % N) + 1]]

\* C12: an entry that received MAX_FAILS consecutive failure feedbacks is not
\* returned by a selection made before its cooldown_until, and a selection made
\* after it that reaches the entry first returns it, its fails_count untouched.
C12_CooldownAndReactivation ==
    call.op = "select" =>
        \A u \in DOMAIN call.before :
            LET st == call.before[u] IN
            st.fails_count >= MAX_FAILS =>
                /\ call.at < TheValue(st.cooldown_until) => call.url # Some(u)
                /\ (call.at >= TheValue(st.cooldown_until) /\ ExaminationOrder[1] = u)
                       => /\ call.url = Some(u)
                          /\ proxies[u].fails_count = st.fails_count

\* C13: the proxy a selection returns is working, not in cooldown (cooldown_until
\* unset or not later than now) and below MAX_REQUESTS_PER_PROXY.
C13_SelectionSoundness ==
    (call.op = "select" /\ call.url # None) =>
        LET st == proxies[TheValue(call.url)] IN
        /\ st.is_working = TRUE
        /\ st.cooldown_until = None \/ TheValue(st.cooldown_until) <= now
        /\ st.requests_count < MAX_REQUESTS_PER_PROXY

\* a selection passed over an entry and returned one whose cooldown had elapsed
C13_Witness ==
    /\ call.op = "select"
    /\ call.url # None
    /\ ExaminationOrder[1] # TheValue(call.url)
    /\ proxies[TheValue(call.url)].cooldown_until # None
    /\ now > 0

\* C14: a selection examines the entries in round-robin order from the one
\* after the index it found, at most once each; it returns the first eligible
\* one, and none exactly when no entry is eligible (the empty pool included);
\* consecutive selections that find every entry eligible return, N at a time,
\* N different entries.
C14_RoundRobinSelection ==
    call.op = "select" =>
        LET N == Len(ExaminationOrder)
            ok(j) == Usable(call.before[ExaminationOrder[j]], call.at)
        IN  /\ call.url = None <=> \A j \in 1..N : ~ok(j)
            /\ call.url # None =>
                  \E j \in 1..N :
                      /\ ok(j)
                      /\ \A i \in 1..(j - 1) : ~ok(i)
                      /\ call.url = Some(ExaminationOrder[j])
                      /\ current_proxy_index = (call.index_before + j) % N
            /\ (call.url = None /\ N > 0) => current_proxy_index = call.index_before
            /\ \A a, b \in 1..Len(call.streak) :
                  (a < b /\ b - a < N) => call.streak[a] # call.streak[b]

\* three selections in a row on a pool of three eligible entries
C14_Witness ==
    /\ call.op = "select"
    /\ Len(ProxyKeys(call.before)) = 3
    /\ Len(call.streak) = 3
    /\ Range(call.streak) = DOMAIN call.before

\* C15: a page request that goes out through a proxy and fails (transport
\* error or non-2xx) gives that proxy failure feedback, fails_count + 1, and no
\* success feedback: no requests_count grows.
C15_FailureFeedback ==
    [][(/\ run.pc = "loop"
        /\ run'.pc = "got_response"
        /\ Len(run'.requests) = Len(run.requests) + 1
        /\ Failed(run'.response))
       => /\ \E u \in DOMAIN proxies :
                proxies'[u].fails_count = proxies[u].fails_count + 1
          /\ \A u \in DOMAIN proxies :
                proxies'[u].requests_count <= proxies[u].requests_count]_vars

\* C16: with no eligible proxy for a page the invocation is not left by an
\* exception: it records FAILED progress for the page and returns.
C16_PoolExhaustionHandled == run.pc # "raised"

\* the chain name of the contract in flight has no chain id, or no key is loaded
ConfigurationError ==
    \/ get_chain_id(run.contract.chain) = None
    \/ api_keys = <<>>

\* C17: an invocation under a configuration error requests no page, returns
\* the empty list and leaves the processed-contract records, the progress
\* records and the proxy pool as it found them.
C17_ConfigErrorsWriteNothing ==
    (Returned /\ ConfigurationError) =>
        /\ run.requests = <<>>
        /\ run.result = <<>>
        /\ contracts = run.at_start.contracts
        /\ progress = run.at_start.progress
        /\ proxies = run.at_start.proxies
    /\ proxies_data = _save_proxy_data(proxies)

\* C18: no ApiKeyManager with zero keys exists (its construction from a
\* missing or empty key file fails), and get_next_key always returns a key.
C18_EmptyKeyListIsFatal ==
    /\ api_keys # <<>>
    /\ get_next_key(api_keys, key_index).key # None

\* C20: a save_processed_contract whose write of processed_contracts.json fails
\* raises and leaves the progress records alone; a save_parsing_progress whose
\* write of parsing_progress.json fails returns without raising.
C20_PersistenceErrorAsymmetry ==
    [][(call'.n = call.n + 1 /\ call'.disk # "ok") =>
          IF call'.op = "save_processed_contract"
          THEN call'.raised /\ progress' = progress
          ELSE ~call'.raised]_vars

\* the files after the DBManager writer `write` ran alone on `store`
Applied(store, a, write) ==
    CASE write.op = "save_parsing_progress" ->
             [store EXCEPT !.progress = save_parsing_progress(@, write.arg)]
      [] write.op = "save_processed_contract" ->
             [store EXCEPT !.contracts = SavedContracts(@, write.arg),
                           !.progress = ProgressAfterSave(@, write.arg)]
      [] write.op = "add_pending_holders" ->
             [store EXCEPT !.pending = AddedPending(@, a, write.arg)]

RECURSIVE AppliedAll(_, _, _)
AppliedAll(store, a, writes) ==
    IF writes = <<>> THEN store
    ELSE AppliedAll(Applied(store, a, Head(writes)), a, Tail(writes))

\* the files after worker w's store writes ran on `store` one after the other
RanAlone(store, w) ==
    AppliedAll(store, WorkerContracts[w].address,
               StoreWrites(WorkerContracts[w], tasks[w].holders))

AllDone == \A w \in Workers : tasks[w].pc = "done"

\* C19: when both workers of process_tasks have finished, the three files
\* hold what the workers' store writes give when run one worker after the
\* other, in one of the two orders: no write of one worker is undone by a
\* save of the other worker's stale copy.
C19_NoLostUpdates ==
    AllDone =>
        \E first \in Workers : \E second \in Workers \ {first} :
            [contracts |-> contracts, progress |-> progress, pending |-> pending]
                = RanAlone(RanAlone([contracts |-> <<>>, progress |-> EmptyDict,
                                     pending |-> EmptyDict], first), second)

\* both workers finished after each saved a contract record and pending
\* holders, and the files hold the records and holders of both
C19_Witness ==
    /\ AllDone
    /\ \A w \in Workers : tasks[w].holders # <<>>
    /\ {contracts[i].address : i \in 1..Len(contracts)}
           = {WorkerContracts[w].address : w \in Workers}
    /\ DOMAIN pending = {WorkerContracts[w].address : w \in Workers}

\* C21: when process_tasks has returned, the result at position i of the
\* returned list, which process_all_contracts pairs with the contract at
\* position i of the scheduled list, is the result of the crawl of that
\* contract.
C21_ResultAssociation ==
    scheduler.pc = "returned" =>
        \A i \in 1..Len(results) :
            i \in Workers => scheduler.appended[i] = i

\* process_tasks has returned and its list holds the result of every task
\* whose worker did not raise
ReturnedResults ==
    /\ scheduler.pc = "returned"
    /\ \A w \in Workers : tasks[w].pc \in {"done", "raised"}
    /\ \A w \in Workers :
          tasks[w].pc = "done" =>
              \E i \in 1..Len(results) :
                  scheduler.appended[i] = w /\ results[i] = tasks[w].holders

\* C22: whichever workers raise, process_tasks ends by returning, every
\* worker has then run to its end, and the returned list holds the result of
\* every task whose worker did not raise.
C22_FailureIsolation == <>ReturnedResults

\* process_tasks returned the result of one task after the worker of the
\* other task raised
C22_Witness ==
    /\ ReturnedResults
    /\ \E w \in Workers : tasks[w].pc = "raised"
    /\ \E w \in Workers : tasks[w].pc = "done"
    /\ Len(results) = 1

RECURSIVE SumInFlight(_)
SumInFlight(ws) ==
    IF ws = {} THEN 0
    ELSE LET w == CHOOSE x \in ws : TRUE IN tasks[w].in_flight + SumInFlight(ws \ {w})

\* the upstream page requests in flight, over all workers
InFlight == SumInFlight(DOMAIN tasks)

\* C24: at most MAX_CONCURRENT_REQUESTS upstream requests are in flight over
\* all workers, and the semaphore that limits them is one instance, the same
\* for the crawl of every contract.
C24_SharedLimiter ==
    /\ InFlight <= MAX_CONCURRENT_REQUESTS
    /\ \A v \in DOMAIN tasks : \A w \in DOMAIN tasks :
          tasks[v].semaphore # None /\ tasks[w].semaphore # None
              => tasks[v].semaphore = tasks[w].semaphore

\* C24, as the code has it: at most one upstream request is in flight over
\* all workers, which is within MAX_CONCURRENT_REQUESTS, because a worker
\* holds the lock of the ThreadManager from the start of its crawl to its
\* end; the semaphore a crawl enters is the one that crawl created.
C24_InFlightCap ==
    /\ InFlight <= 1
    /\ InFlight <= MAX_CONCURRENT_REQUESTS
    /\ \A w \in DOMAIN tasks : tasks[w].semaphore \in {None, Some(w)}
    /\ \A w \in DOMAIN tasks : tasks[w].in_flight = 1 => _lock = Some(w)

\* the request of one crawl is in flight through that crawl's semaphore while
\* the crawl of the other contract has ended with a semaphore of its own
C24_Witness ==
    \E v \in DOMAIN tasks : \E w \in DOMAIN tasks :
        /\ v # w
        /\ tasks[v].in_flight = 1 /\ tasks[v].semaphore = Some(v)
        /\ tasks[w].pc = "done" /\ tasks[w].semaphore = Some(w)

\* worker_func of task w is executing: _safe_worker has entered it and it
\* has neither returned nor raised
Executing(w) == tasks[w].pc \notin {"submitted", "done", "raised"}

\* the step changes a store file or the proxy pool
StoreOrPoolStep ==
    <<contracts, progress, pending, proxies, proxies_data, current_proxy_index>>'
        # <<contracts, progress, pending, proxies, proxies_data, current_proxy_index>>

\* C39: at most one worker_func executes at any moment, the executing worker
\* holds the lock of the ThreadManager, and every step that changes a store
\* file or the proxy pool is a step of that worker, taken while no other
\* worker is inside its crawl.
C39_WorkersMutuallyExclusive ==
    /\ [](\A v \in Workers : \A w \in Workers :
            /\ Executing(v) /\ Executing(w) => v = w
            /\ Executing(w) => _lock = Some(w))
    /\ [][StoreOrPoolStep =>
            \E w \in Workers :
                /\ _lock = Some(w)
                /\ Executing(w)
                /\ tasks'[w] # tasks[w]
                /\ \A v \in Workers \ {w} :
                      tasks'[v] = tasks[v] /\ ~Executing(v)]_vars

\* the second worker is between two of its store writes, with a file of its
\* own written, after the first worker wrote its files and returned
C39_Witness ==
    \E v \in Workers : \E w \in Workers \ {v} :
        /\ tasks[v].pc = "done" /\ tasks[v].holders # <<>>
        /\ tasks[w].pc = "call" /\ tasks[w].at = 3
        /\ _lock = Some(w)
        /\ WorkerContracts[v].address \in DOMAIN pending
        /\ \E i \in 1..Len(contracts) : contracts[i].address = WorkerContracts[w].address

\* C40: in every state of an engine run, the states between the store writes
\* of one page included, every address in the pending-holder list of a
\* contract is in the holder list of the persisted record of that contract.
C40_PendingWithinProcessed ==
    \A a \in DOMAIN pending :
        Range(Addresses(get_pending_holders(pending, a)))
            \subseteq Range(PersistedAddresses(contracts, a))

\* a second page of the crawl was saved to the contract's record and its
\* add_pending_holders is still to come, while holders of the first page are
\* pending
C40_Witness ==
    /\ run.pc = "add_pending"
    /\ Len(run.requests) = 2
    /\ get_pending_holders(pending, run.contract.address) # <<>>
    /\ Range(Addresses(get_pending_holders(pending, run.contract.address)))
           # Range(PersistedAddresses(contracts, run.contract.address))

\* the contracts of list s whose progress record is IN_PROGRESS or FAILED
\* (keep = TRUE), or the others (keep = FALSE), in the order of s
Unfinished(s, keep) ==
    SelectSeq(s, LAMBDA c :
        (c.address \in DOMAIN progress
            /\ progress[c.address].status \in {"in_progress", "failed"}) = keep)

\* C23: the scheduled list is a permutation of the loaded contract list,
\* every contract with an IN_PROGRESS or FAILED progress record precedes
\* every contract without one, and the contracts without one keep the order
\* of the file.
C23_UnfinishedFirst ==
    scheduler.pc = "as_completed" /\ DOMAIN tasks = 1..Len(scheduler.contracts) =>
        LET file == scheduler.all_contracts
            list == scheduler.contracts
        IN  /\ Len(list) = Len(file)
            /\ \A c \in Range(file) \cup Range(list) : Count(c, list) = Count(c, file)
            /\ list = Unfinished(list, TRUE) \o Unfinished(list, FALSE)
            /\ Unfinished(list, FALSE) = Unfinished(file, FALSE)
            /\ Len(tasks) = Len(list)

\* a file of three contracts, the unfinished one between two others, has been
\* scheduled
C23_Witness ==
    /\ scheduler.pc = "as_completed"
    /\ Len(scheduler.all_contracts) = 3
    /\ Len(Unfinished(scheduler.all_contracts, TRUE)) = 1
    /\ scheduler.all_contracts[2] = Unfinished(scheduler.all_contracts, TRUE)[1]
    /\ scheduler.all_contracts[1] # scheduler.all_contracts[3]
    /\ scheduler.contracts[1] = scheduler.all_contracts[2]

\* C26: for every ParsingProgress p and every ProcessedContract c of
\* db_manager, from_dict(p.to_dict()) equals p and from_dict(c.to_dict())
\* equals c, field by field.
C26_SerializationRoundTrip ==
    /\ call.op = "ParsingProgress" => call.progress_back = call.progress
    /\ call.op = "ProcessedContract" => call.contract_back = call.contract

\* a contract with a status other than COMPLETED and two holders, one of them
\* processed at an instant, came back from its dict
C26_Witness ==
    /\ call.op = "ProcessedContract"
    /\ call.contract # None
    /\ TheValue(call.contract).status = DB("failed")
    /\ TheValue(call.contract).processed_at = 2
    /\ \E i \in 1..Len(TheValue(call.contract).holders) :
          TheValue(call.contract).holders[i].processed_at = Some(2)
    /\ call.contract_back = call.contract

\* C27: a new ProxyManager over the same proxy list holds, for every proxy,
\* the is_working, fails_count, cooldown_until and requests_count the old
\* instance held after its last mutation, and it does not select a proxy
\* whose cooldown_until, set before the restart, is still ahead.
C27_PoolStateSurvivesRestart ==
    call.op = "restart" =>
        /\ proxies = call.before
        /\ \A u \in DOMAIN call.before :
              call.before[u].cooldown_until # None
                  /\ now < TheValue(call.before[u].cooldown_until)
              => _get_next_available_proxy(proxies, current_proxy_index, now).url
                     # Some(u)

\* a restart of a pool in which one proxy was put in cooldown by its failures
\* and another was used since the pool was first loaded
C27_Witness ==
    /\ call.op = "restart"
    /\ \E u \in DOMAIN proxies :
          /\ ~proxies[u].is_working
          /\ proxies[u].fails_count = MAX_FAILS
          /\ proxies[u].cooldown_until # None
          /\ now < TheValue(proxies[u].cooldown_until)
    /\ \E u \in DOMAIN proxies : proxies[u].requests_count = 1

\* the page of the last request of the invocation in flight
LastRequested == run.requests[Len(run.requests)]

\* the page still to be fetched when the page loop has ended: the start page
\* if nothing was requested, the page of a failed request, the next_page of a
\* successful response; no page (None) behind a successful last page
NextToFetch ==
    IF run.requests = <<>> THEN Some(run.start_page)
    ELSE IF Failed(run.response) THEN Some(LastRequested)
    ELSE run.response.next_page

\* C25: once is_interrupted is set no page request is started, and the
\* invocation that finds the flag set when its page loop has ended persists
\* a progress record IN_PROGRESS whose current_page is the page still to be
\* fetched, and the addresses of every page it fetched.
C25_CancellationCheckpoint ==
    [][LET a == run.contract.address IN
       /\ Len(run'.requests) > Len(run.requests) => ~is_interrupted
       /\ (run.pc = "after_loop" /\ is_interrupted /\ run' # run /\ run'.pc # "idle") =>
              /\ run'.pc = "final_holders"
              /\ a \in DOMAIN progress'
              /\ progress'[a].status = "in_progress"
              /\ Some(progress'[a].current_page) = NextToFetch
       /\ (run.pc = "final_holders" /\ is_interrupted /\ run' # run /\ run'.pc # "idle") =>
              Range(Flatten(run.fetched)) \subseteq Range(PersistedAddresses(contracts', a))
      ]_vars

\* C28: the list an invocation returns holds no address that was in the
\* contract's persisted holder list when the invocation started.
C28_ReturnsNewHoldersOnly ==
    Returned =>
        Range(run.result)
            \cap Range(PersistedAddresses(run.at_start.contracts, run.contract.address)) = {}

\* C29: every page request of an invocation after its first is for the
\* next_page of the response before it, which was a success.
C29_ServerCursor ==
    [][(run.requests # <<>> /\ Len(run'.requests) = Len(run.requests) + 1) =>
          /\ run.response.kind = "SuccessResponse"
          /\ run.response.next_page = Some(run'.requests[Len(run'.requests)])
          /\ SubSeq(run'.requests, 1, Len(run.requests)) = run.requests]_vars

\* a second request for a page that is not the page after the first
C29_Witness ==
    /\ Len(run.requests) = 2
    /\ run.requests[2] # run.requests[1] + 1
    /\ run.response.kind = "SuccessResponse"

\* a successful response without addresses that names a next page
EmptyPageWithNext(r) ==
    r.kind = "SuccessResponse" /\ r.data = <<>> /\ r.next_page # None

\* C30: when the response for page k is a success without addresses that
\* names a next page, the engine goes on with that page, the progress record
\* is IN_PROGRESS with current_page k, and the persisted addresses of the
\* contract are those persisted before page k.
C30_EmptyPageAdvances ==
    [][(run.pc = "save_holders" /\ EmptyPageWithNext(run.response)
          /\ run' # run /\ run'.pc # "idle") =>
          LET a == run.contract.address IN
          /\ run'.pc \in {"loop", "add_pending"}
          /\ run'.cont = "loop" \/ run'.pc = "loop"
          /\ run'.current_page = TheValue(run.response.next_page)
          /\ a \in DOMAIN progress'
          /\ progress'[a].status = "in_progress"
          /\ progress'[a].current_page = LastRequested
          /\ Range(PersistedAddresses(contracts', a))
                 = Range(PersistedAddresses(contracts, a))]_vars

\* the second page of a crawl was empty and named a next page, after a first
\* page with an address; the engine stands at the top of its loop
C30_Witness ==
    /\ run.pc = "loop"
    /\ Len(run.requests) = 2
    /\ run.fetched = <<(<<"0x1">>), (<<>>)>>
    /\ EmptyPageWithNext(run.response)
    /\ run.current_page = TheValue(run.response.next_page)
    /\ PersistedAddresses(contracts, run.contract.address) = <<"0x1">>

\* the entries the selection examined: every entry before it in the order
\* was not eligible
Examined(u) ==
    \E j \in 1..Len(ExaminationOrder) :
        /\ ExaminationOrder[j] = u
        /\ \A i \in 1..(j - 1) : ~Usable(call.before[ExaminationOrder[i]], call.at)

\* C31: a selection that examines a working entry, not in cooldown, whose
\* requests_count has reached MAX_REQUESTS_PER_PROXY does not return it, sets
\* its cooldown_until to now + COOLDOWN_TIME and its requests_count to 0, and
\* leaves its fails_count and is_working as they were; a selection made at or
\* after the cooldown_until of a working entry below the quota that examines
\* it first returns it.
C31_QuotaForcesCooldown ==
    call.op = "select" =>
        \A u \in DOMAIN call.before :
            LET st == call.before[u] IN
            /\ ( /\ Examined(u)
                 /\ st.is_working
                 /\ st.cooldown_until = None \/ call.at >= TheValue(st.cooldown_until)
                 /\ st.requests_count >= MAX_REQUESTS_PER_PROXY )
                 => /\ call.url # Some(u)
                    /\ proxies[u].cooldown_until = Some(call.at + COOLDOWN_TIME)
                    /\ proxies[u].requests_count = 0
                    /\ proxies[u].fails_count = st.fails_count
                    /\ proxies[u].is_working = st.is_working
            /\ ( /\ ExaminationOrder[1] = u
                 /\ st.is_working
                 /\ st.cooldown_until # None
                 /\ call.at >= TheValue(st.cooldown_until)
                 /\ st.requests_count < MAX_REQUESTS_PER_PROXY )
                 => /\ call.url = Some(u)
                    /\ proxies[u] = st

\* a selection returns an entry whose quota had put it in cooldown: a working
\* entry with a cooldown later than any the state file of the start held
C31_Witness ==
    /\ call.op = "select"
    /\ call.url # None
    /\ LET st == call.before[TheValue(call.url)] IN
       /\ st.is_working
       /\ st.cooldown_until # None
       /\ TheValue(st.cooldown_until) > COOLDOWN_TIME
       /\ st.requests_count = 0
       /\ call.at >= TheValue(st.cooldown_until)

\* C32: after add_pending_holders(a, H) the pending list of a is its prior
\* list, in order, followed by the entries of H whose address was not in the
\* prior list; the lists of other contracts are unchanged; the same call again
\* changes nothing; and no pending list holds two entries with one address.
C32_PendingUnionByAddress ==
    call.op = "add_pending_holders" =>
        LET a == call.address
            prior == get_pending_holders(call.before, a)
            after == get_pending_holders(pending, a)
            added == SelectSeq(call.holders,
                               LAMBDA h : h.address \notin Range(Addresses(prior)))
        IN  /\ after = prior \o added
            /\ \A b \in DOMAIN call.before \ {a} :
                  b \in DOMAIN pending /\ pending[b] = call.before[b]
            /\ DOMAIN pending = DOMAIN call.before \cup {a}
            /\ AddedPending(pending, a, call.holders) = pending
            /\ \A b \in DOMAIN pending :
                  NoDuplicates(Addresses(get_pending_holders(pending, b)))

\* C33: once a page request of an invocation has failed (no response or a
\* status outside 2xx), the invocation makes no further request and does not
\* go back to the top of its page loop.
C33_NoInEngineRetry ==
    [][(~NoCrawl /\ run.requests # <<>> /\ Failed(run.response)
          /\ run' # run /\ run'.pc # "idle") =>
          /\ run'.requests = run.requests
          /\ run'.response = run.response
          /\ run'.pc \notin {"loop", "got_response"}]_vars

\* an invocation returned after two requests, the second of which failed
C33_Witness ==
    /\ Returned
    /\ Len(run.requests) = 2
    /\ Failed(run.response)

\* C34: a call of get_next_header that finds no eligible header gives control
\* back to its caller after at most one full cycle over the pool, and a
\* coroutine that waits in asyncio.sleep does not hold the lock of the
\* HeaderManager, so that mark_header_success and mark_header_failed can run.
C34_HeaderSelectionDoesNotBlock ==
    \A c \in Coroutines :
        /\ header_calls[c].pc = "sleep" => header_manager._lock # Some(c)
        /\ header_calls[c].cycles <= 1

\* C35: with n >= 1 keys loaded, the j-th call of get_next_key returns the key
\* at position (j - 1) mod n of the list, whatever the outcome of the requests
\* before it, and any n consecutive calls return every key of the list.
C35_CyclicRotation ==
    (call.op = "get_next_key" /\ api_keys # <<>>) =>
        LET n == Len(api_keys)
            J == Len(call.returned)
        IN  /\ \A j \in 1..J :
                  call.returned[j].key = Some(api_keys[((j - 1) % n) + 1])
            /\ \A a \in 1..(J - n + 1) :
                  /\ {call.returned[a + i].key : i \in 0..(n - 1)}
                         = {Some(k) : k \in Range(api_keys)}
                  /\ \A i1, i2 \in 0..(n - 1) :
                        i1 # i2 => call.returned[a + i1].key # call.returned[a + i2].key

\* two rounds over three keys, with requests that failed and requests that
\* succeeded among them
C35_Witness ==
    /\ call.op = "get_next_key"
    /\ Len(api_keys) = 3
    /\ Len(call.returned) = 6
    /\ \E i, j \in 1..6 : call.returned[i].ok /\ ~call.returned[j].ok

\* the requests of the invocation in flight that came before its last request
\* for page k; all of them when it has not requested page k
FetchedBefore(k) ==
    LET at == {m \in 1..Len(run.requests) : run.requests[m] = k}
    IN  IF at = {} THEN 1..Len(run.requests)
        ELSE 1..((CHOOSE m \in at : \A x \in at : x <= m) - 1)

\* C36: in every state of a crawl (the process may stop in any), when the
\* persisted progress record of the contract is IN_PROGRESS with current_page k,
\* every address of the pages the invocation fetched before page k is in the
\* persisted holder list of the contract.
C36_CheckpointNotAhead ==
    LET a == run.contract.address IN
    (run.pc # "idle" /\ a \in DOMAIN progress /\ progress[a].status = "in_progress") =>
        \A m \in FetchedBefore(progress[a].current_page) :
            Range(run.fetched[m]) \subseteq Range(PersistedAddresses(contracts, a))

\* between the progress write and the holder write of the second page: the
\* record names that page, the address of the first page is persisted, the
\* address of the second is not yet
C36_Witness ==
    LET a == run.contract.address IN
    /\ run.pc = "save_holders"
    /\ run.requests = <<1, 2>>
    /\ run.fetched = <<(<<"0x1">>), (<<"0x2">>)>>
    /\ a \in DOMAIN progress
    /\ progress[a].status = "in_progress"
    /\ progress[a].current_page = 2
    /\ PersistedAddresses(contracts, a) = <<"0x1">>

\* the addresses of the contract records that are persisted
PersistedContracts(cs) == {cs[i].address : i \in 1..Len(cs)}

\* the records of contract b in the contracts list, in order
RecordsOf(cs, b) == SelectSeq(cs, LAMBDA c : c.address = b)

\* C37: no step takes an address out of the persisted holder list of a
\* contract, and a step that changes the records of one contract leaves the
\* records of every other contract as they were.
C37_HolderSetsOnlyGrow ==
    [][/\ \A a \in PersistedContracts(contracts) :
             Range(PersistedAddresses(contracts, a))
                 \subseteq Range(PersistedAddresses(contracts', a))
       /\ \A a, b \in PersistedContracts(contracts) \cup PersistedContracts(contracts') :
             (a # b /\ RecordsOf(contracts', a) # RecordsOf(contracts, a))
                 => RecordsOf(contracts', b) = RecordsOf(contracts, b)]_vars

\* C38: the contracts list holds at most one record for each contract address.
C38_OneRecordPerAddress ==
    \A i, j \in 1..Len(contracts) :
        contracts[i].address = contracts[j].address => i = j

\* save_processed_contract was called a second time for an address that has a
\* record, and another address has its record too
C38_Witness ==
    /\ call.op = "save_processed_contract"
    /\ call.n = 3
    /\ Len(contracts) = 2
    /\ contracts[1].address # contracts[2].address

=============================================================================
